---- MODULE Spec2Model ----
(***************************************************************************)
(* Model of backend/server.py: the recovery logic of                       *)
(* generate_api_with_openai (text received from the provider -> file map)  *)
(* and normalize_schema (schema document -> canonical schema).             *)
(*                                                                         *)
(* A text is a sequence of characters, a character a one-character string. *)
(* Positions are 1-based: Python's index p is position p + 1, and "not     *)
(* found" (-1 in Python) is 0.                                             *)
(***************************************************************************)
EXTENDS Integers, Sequences, FiniteSets, TLC

(***************************************************************************)
(* Characters and text primitives                                          *)
(***************************************************************************)

\* The characters of the model's alphabet with ord(c) < 32.
ControlChars == {"\t", "\n", "\r", "\f"}

\* json.decoder.WHITESPACE: [ \t\n\r]*
JsonWs == {" ", "\t", "\n", "\r"}

\* Python's \s and str.strip(): the alphabet's whitespace (form feed included).
PyWs == {" ", "\t", "\n", "\r", "\f"}

Digits == {"0", "1", "2", "3", "4", "5", "6", "7", "8", "9"}

Min(a, b) == IF a < b THEN a ELSE b

Max(a, b) == IF a < b THEN b ELSE a

RECURSIVE Cat(_)
\* Concatenation of a sequence of texts.
Cat(ss) == IF ss = <<>> THEN <<>> ELSE Head(ss) \o Cat(Tail(ss))

\* text[i:] begins with pat (i is 1-based).
StartsWithAt(text, i, pat) ==
    /\ i >= 1
    /\ i + Len(pat) - 1 <= Len(text)
    /\ \A k \in 1..Len(pat) : text[i + k - 1] = pat[k]

\* str.startswith / str.endswith
StartsWith(text, pat) == StartsWithAt(text, 1, pat)

EndsWith(text, pat) == StartsWithAt(text, Len(text) - Len(pat) + 1, pat)

\* str.find(pat, from): the first position >= from where pat occurs, 0 if none.
FindFrom(text, pat, from) ==
    LET hits == {i \in from..Len(text) : StartsWithAt(text, i, pat)}
    IN  IF hits = {} THEN 0 ELSE CHOOSE i \in hits : \A j \in hits : i <= j

Find(text, pat) == FindFrom(text, pat, 1)

\* str.rfind(pat): the last position where pat occurs, 0 if none.
RFind(text, pat) ==
    LET hits == {i \in 1..Len(text) : StartsWithAt(text, i, pat)}
    IN  IF hits = {} THEN 0 ELSE CHOOSE i \in hits : \A j \in hits : j <= i

\* pat in text
Contains(text, pat) == \E i \in 1..(Len(text) + 1) : StartsWithAt(text, i, pat)

\* str.strip()
Strip(text) ==
    LET keep == {i \in 1..Len(text) : text[i] \notin PyWs}
    IN  IF keep = {} THEN <<>>
        ELSE SubSeq(text, CHOOSE i \in keep : \A j \in keep : i <= j,
                          CHOOSE i \in keep : \A j \in keep : j <= i)

\* The first position >= i holding a character outside ws (Len(text)+1 if none).
RECURSIVE SkipChars(_, _, _)
SkipChars(text, i, ws) ==
    IF i <= Len(text) /\ text[i] \in ws THEN SkipChars(text, i + 1, ws) ELSE i

(***************************************************************************)
(* Parsed values (what json.loads returns), in one record shape:           *)
(*   t = "str"   s = the characters                                        *)
(*   t = "int"   s = the digits                                            *)
(*   t = "bool"  s = "True" or "False" (Python's str of it)                *)
(*   t = "none"                                                            *)
(*   t = "dict"  keys, items: the entries in insertion order               *)
(*   t = "list"  items                                                     *)
(***************************************************************************)
PyStr(s) == [t |-> "str", s |-> s, keys |-> <<>>, items |-> <<>>]

PyInt(s) == [t |-> "int", s |-> s, keys |-> <<>>, items |-> <<>>]

PyTrue == [t |-> "bool", s |-> <<"T", "r", "u", "e">>, keys |-> <<>>, items |-> <<>>]

PyFalse == [t |-> "bool", s |-> <<"F", "a", "l", "s", "e">>, keys |-> <<>>, items |-> <<>>]

PyNone == [t |-> "none", s |-> <<>>, keys |-> <<>>, items |-> <<>>]

PyDict(keys, items) == [t |-> "dict", s |-> <<>>, keys |-> keys, items |-> items]

PyList(items) == [t |-> "list", s |-> <<>>, keys |-> <<>>, items |-> items]

EmptyDict == PyDict(<<>>, <<>>)

\* Python truthiness: bool(v).
Truthy(v) ==
    CASE v.t = "str" -> v.s # <<>>
      [] v.t = "int" -> \E i \in 1..Len(v.s) : v.s[i] # "0"
      [] v.t = "bool" -> v = PyTrue
      [] v.t = "none" -> FALSE
      [] v.t = "dict" -> v.keys # <<>>
      [] v.t = "list" -> v.items # <<>>

\* key in d (d a dict)
HasKey(d, k) == \E i \in 1..Len(d.keys) : d.keys[i] = k

\* d[k] (d a dict that has k)
DictGet(d, k) == d.items[CHOOSE i \in 1..Len(d.keys) : d.keys[i] = k]

\* d.get(k, default)
DictGetOr(d, k, default) == IF HasKey(d, k) THEN DictGet(d, k) ELSE default

\* d[k] = v: an existing key keeps its place, a new key goes last.
DictSet(d, k, v) ==
    IF HasKey(d, k)
    THEN PyDict(d.keys, [i \in 1..Len(d.items) |-> IF d.keys[i] = k THEN v ELSE d.items[i]])
    ELSE PyDict(Append(d.keys, k), Append(d.items, v))

\* del d[k]
DictDel(d, k) ==
    LET keep == {i \in 1..Len(d.keys) : d.keys[i] # k}
        RECURSIVE Sel(_, _)
        Sel(i, acc) == IF i > Len(d.keys) THEN acc
                       ELSE Sel(i + 1, IF i \in keep THEN Append(acc, i) ELSE acc)
        idx == Sel(1, <<>>)
    IN  PyDict([j \in 1..Len(idx) |-> d.keys[idx[j]]], [j \in 1..Len(idx) |-> d.items[idx[j]]])

\* d1 == d2 for two dicts: the same keys with the same values, in any order.
DictEq(d1, d2) ==
    /\ Len(d1.keys) = Len(d2.keys)
    /\ \A i \in 1..Len(d1.keys) : HasKey(d2, d1.keys[i]) /\ DictGet(d2, d1.keys[i]) = d1.items[i]

(***************************************************************************)
(* json.loads (strict mode), as the standard library's decoder scans:      *)
(* scanstring, JSONObject, JSONArray, scan_once, then "Extra data".        *)
(* Number literals are integers; the model's inputs hold no fraction or    *)
(* exponent part and no \u escape.                                         *)
(***************************************************************************)

\* json.decoder.BACKSLASH: the character an escape letter stands for.
\* (Backspace has no TLA+ escape; it is written as the token "<BS>".)
Backslash(e) ==
    CASE e = "\"" -> "\""
      [] e = "\\" -> "\\"
      [] e = "/" -> "/"
      [] e = "b" -> "<BS>"
      [] e = "f" -> "\f"
      [] e = "n" -> "\n"
      [] e = "r" -> "\r"
      [] e = "t" -> "\t"

BackslashLetters == {"\"", "\\", "/", "b", "f", "n", "r", "t"}

\* A failed scan (the decoder raises JSONDecodeError).
NoParse == [ok |-> FALSE, val |-> PyNone, pos |-> 0]

Parsed(v, p) == [ok |-> TRUE, val |-> v, pos |-> p]

RECURSIVE scanstring(_, _, _)
\* py_scanstring from position i, just after the opening quote: the characters up
\* to the closing quote, escapes decoded; a raw control character or an unknown
\* escape fails. pos is the position after the closing quote.
scanstring(text, i, acc) ==
    IF i > Len(text) THEN NoParse
    ELSE LET c == text[i] IN
         IF c = "\"" THEN Parsed(PyStr(acc), i + 1)
         ELSE IF c \in ControlChars THEN NoParse
         ELSE IF c = "\\"
              THEN IF i + 1 <= Len(text) /\ text[i + 1] \in BackslashLetters
                   THEN scanstring(text, i + 2, Append(acc, Backslash(text[i + 1])))
                   ELSE NoParse
         ELSE scanstring(text, i + 1, Append(acc, c))

\* NUMBER_RE at position i: 0 | [1-9][0-9]*; the position after the literal.
NumberEnd(text, i) == IF text[i] = "0" THEN i + 1 ELSE SkipChars(text, i, Digits)

RECURSIVE scan_once(_, _)
RECURSIVE ObjectMembers(_, _, _)
RECURSIVE ArrayItems(_, _, _)

\* JSONObject's loop: i is just after the opening quote of a key, d the pairs so far.
ObjectMembers(text, i, d) ==
    LET k == scanstring(text, i, <<>>) IN
    IF ~k.ok THEN NoParse
    ELSE LET colon == SkipChars(text, k.pos, JsonWs) IN
         IF colon > Len(text) \/ text[colon] # ":" THEN NoParse
         ELSE LET v == scan_once(text, SkipChars(text, colon + 1, JsonWs)) IN
              IF ~v.ok THEN NoParse
              ELSE LET e == SkipChars(text, v.pos, JsonWs)
                       d2 == DictSet(d, k.val.s, v.val)
                   IN  IF e > Len(text) THEN NoParse
                       ELSE IF text[e] = "}" THEN Parsed(d2, e + 1)
                       ELSE IF text[e] # "," THEN NoParse
                       ELSE LET n == SkipChars(text, e + 1, JsonWs) IN
                            IF n > Len(text) \/ text[n] # "\"" THEN NoParse
                            ELSE ObjectMembers(text, n + 1, d2)

\* JSONObject: i is just after the "{".
JSONObject(text, i) ==
    LET n == SkipChars(text, i, JsonWs) IN
    IF n > Len(text) THEN NoParse
    ELSE IF text[n] = "}" THEN Parsed(EmptyDict, n + 1)
    ELSE IF text[n] # "\"" THEN NoParse
    ELSE ObjectMembers(text, n + 1, EmptyDict)

\* JSONArray's loop: i is the position of the next value, items the values so far.
ArrayItems(text, i, items) ==
    LET v == scan_once(text, i) IN
    IF ~v.ok THEN NoParse
    ELSE LET e == SkipChars(text, v.pos, JsonWs)
             items2 == Append(items, v.val)
         IN  IF e > Len(text) THEN NoParse
             ELSE IF text[e] = "]" THEN Parsed(PyList(items2), e + 1)
             ELSE IF text[e] # "," THEN NoParse
             ELSE ArrayItems(text, SkipChars(text, e + 1, JsonWs), items2)

\* JSONArray: i is just after the "[".
JSONArray(text, i) ==
    LET n == SkipChars(text, i, JsonWs) IN
    IF n > Len(text) THEN NoParse
    ELSE IF text[n] = "]" THEN Parsed(PyList(<<>>), n + 1)
    ELSE ArrayItems(text, n, <<>>)

\* json.scanner.py_make_scanner._scan_once
scan_once(text, i) ==
    IF i > Len(text) THEN NoParse
    ELSE LET c == text[i] IN
         IF c = "\"" THEN scanstring(text, i + 1, <<>>)
         ELSE IF c = "{" THEN JSONObject(text, i + 1)
         ELSE IF c = "[" THEN JSONArray(text, i + 1)
         ELSE IF StartsWithAt(text, i, <<"n", "u", "l", "l">>) THEN Parsed(PyNone, i + 4)
         ELSE IF StartsWithAt(text, i, <<"t", "r", "u", "e">>) THEN Parsed(PyTrue, i + 4)
         ELSE IF StartsWithAt(text, i, <<"f", "a", "l", "s", "e">>) THEN Parsed(PyFalse, i + 5)
         ELSE IF c \in Digits
              THEN Parsed(PyInt(SubSeq(text, i, NumberEnd(text, i) - 1)), NumberEnd(text, i))
         ELSE NoParse

\* json.loads(text): ok = FALSE stands for JSONDecodeError.
json_loads(text) ==
    LET r == scan_once(text, SkipChars(text, 1, JsonWs)) IN
    IF r.ok /\ SkipChars(text, r.pos, JsonWs) > Len(text) THEN r ELSE NoParse

(***************************************************************************)
(* json.dumps with the default separators: the compliant serialization the *)
(* round-trip and truncation inputs are made of.                           *)
(***************************************************************************)

\* json.encoder.ESCAPE_DCT for the model's alphabet.
EscapeChar(c) ==
    CASE c = "\"" -> <<"\\", "\"">>
      [] c = "\\" -> <<"\\", "\\">>
      [] c = "\n" -> <<"\\", "n">>
      [] c = "\r" -> <<"\\", "r">>
      [] c = "\t" -> <<"\\", "t">>
      [] c = "\f" -> <<"\\", "f">>
      [] OTHER -> <<c>>

\* encode_basestring: the quoted, escaped form of a string.
DumpString(s) == <<"\"">> \o Cat([i \in 1..Len(s) |-> EscapeChar(s[i])]) \o <<"\"">>

\* json.dumps(d) for a dict d of strings: {"k": "v", "k2": "v2"}
DumpDict(d) ==
    <<"{">> \o
    Cat([i \in 1..Len(d.keys) |->
            (IF i > 1 THEN <<",", " ">> ELSE <<>>) \o
            DumpString(d.keys[i]) \o <<":", " ">> \o DumpString(d.items[i].s)]) \o
    <<"}">>

FilesKey == <<"f", "i", "l", "e", "s">>

\* json.dumps({"files": d})
DumpFilesDoc(d) == <<"{">> \o DumpString(FilesKey) \o <<":", " ">> \o DumpDict(d) \o <<"}">>

(***************************************************************************)
(* str() and repr() of a parsed value, as the coercion of file contents    *)
(* uses them.                                                              *)
(***************************************************************************)

\* repr of one character of a str inside quote q.
ReprChar(c, q) ==
    CASE c = "\\" -> <<"\\", "\\">>
      [] c = "\n" -> <<"\\", "n">>
      [] c = "\r" -> <<"\\", "r">>
      [] c = "\t" -> <<"\\", "t">>
      [] c = "\f" -> <<"\\", "x", "0", "c">>
      [] c = "<BS>" -> <<"\\", "x", "0", "8">>
      [] c = q -> <<"\\", q>>
      [] OTHER -> <<c>>

\* repr(s) for a str: single quotes, unless s holds ' and no ".
ReprString(s) ==
    LET q == IF Contains(s, <<"'">>) /\ ~Contains(s, <<"\"">>) THEN "\"" ELSE "'"
    IN  <<q>> \o Cat([i \in 1..Len(s) |-> ReprChar(s[i], q)]) \o <<q>>

RECURSIVE PyRepr(_)
\* repr(v)
PyRepr(v) ==
    CASE v.t = "str" -> ReprString(v.s)
      [] v.t = "int" -> v.s
      [] v.t = "bool" -> v.s
      [] v.t = "none" -> <<"N", "o", "n", "e">>
      [] v.t = "list" ->
            <<"[">> \o
            Cat([i \in 1..Len(v.items) |->
                    (IF i > 1 THEN <<",", " ">> ELSE <<>>) \o PyRepr(v.items[i])]) \o
            <<"]">>
      [] v.t = "dict" ->
            <<"{">> \o
            Cat([i \in 1..Len(v.keys) |->
                    (IF i > 1 THEN <<",", " ">> ELSE <<>>) \o
                    ReprString(v.keys[i]) \o <<":", " ">> \o PyRepr(v.items[i])]) \o
            <<"}">>

\* str(v)
PyStrOf(v) == IF v.t = "str" THEN v.s ELSE PyRepr(v)

\* '\n'.join(lines)
JoinLines(lines) ==
    Cat([i \in 1..Len(lines) |-> (IF i > 1 THEN <<"\n">> ELSE <<>>) \o lines[i]])

(***************************************************************************)
(* The text stages that run before the strict parse.                       *)
(***************************************************************************)

\* The backquote has no place in a TLA+ string; it is written as the token "<BQ>".
Fence == <<"<BQ>", "<BQ>", "<BQ>">>

FenceJson == Fence \o <<"j", "s", "o", "n">>

\* text[n:] in Python, n characters dropped.
DropFirst(text, n) == SubSeq(text, n + 1, Len(text))

\* Remove markdown code blocks: the leading fence (with or without json), the trailing fence.
StripFences(content) ==
    LET t0 == Strip(content)
        t1 == IF StartsWith(t0, FenceJson) THEN Strip(DropFirst(t0, Len(FenceJson)))
              ELSE IF StartsWith(t0, Fence) THEN Strip(DropFirst(t0, Len(Fence)))
              ELSE t0
    IN  IF EndsWith(t1, Fence) THEN Strip(SubSeq(t1, 1, Len(t1) - Len(Fence))) ELSE t1

\* The outermost { and }: text[json_start:json_end] when both exist in that order.
SliceOuterObject(text) ==
    LET json_start == Find(text, <<"{">>)
        json_end == RFind(text, <<"}">>)
    IN  Strip(IF json_start # 0 /\ json_end >= json_start
              THEN SubSeq(text, json_start, json_end)
              ELSE text)

RECURSIVE Pick(_, _, _)
\* The characters of text at the positions >= i that are in S, in order.
Pick(text, i, S) ==
    IF i > Len(text) THEN <<>>
    ELSE (IF i \in S THEN <<text[i]>> ELSE <<>>) \o Pick(text, i + 1, S)

\* re.sub(r',(\s*[}\]])', r'\1', text): every comma that only whitespace
\* separates from a closing brace or bracket is deleted.
RemoveTrailingCommas(text) ==
    LET dead(i) == /\ text[i] = ","
                   /\ LET j == SkipChars(text, i + 1, PyWs)
                      IN  j <= Len(text) /\ text[j] \in {"}", "]"}
    IN  Pick(text, 1, {i \in 1..Len(text) : ~dead(i)})

\* One iteration of the loop of fix_unescaped_control_chars on char: what it
\* appends to result, and the two flags after it.
fix_step(char, in_string, escape_next) ==
    IF escape_next
    THEN [out |-> <<char>>, in_string |-> in_string, escape_next |-> FALSE]
    ELSE IF char = "\\"
    THEN [out |-> <<char>>, in_string |-> in_string, escape_next |-> TRUE]
    ELSE IF char = "\""
    THEN [out |-> <<char>>, in_string |-> ~in_string, escape_next |-> FALSE]
    ELSE IF in_string /\ char = "\n"
    THEN [out |-> <<"\\", "n">>, in_string |-> in_string, escape_next |-> FALSE]
    ELSE IF in_string /\ char = "\r"
    THEN [out |-> <<"\\", "r">>, in_string |-> in_string, escape_next |-> FALSE]
    ELSE IF in_string /\ char = "\t"
    THEN [out |-> <<"\\", "t">>, in_string |-> in_string, escape_next |-> FALSE]
    ELSE IF in_string /\ char \in ControlChars
    THEN [out |-> <<" ">>, in_string |-> in_string, escape_next |-> FALSE]
    ELSE [out |-> <<char>>, in_string |-> in_string, escape_next |-> FALSE]

RECURSIVE fix_scan(_, _, _, _)
\* The loop of fix_unescaped_control_chars from position i: what it appends to
\* result from there on.
fix_scan(json_text, i, in_string, escape_next) ==
    IF i > Len(json_text) THEN <<>>
    ELSE LET st == fix_step(json_text[i], in_string, escape_next)
         IN  st.out \o fix_scan(json_text, i + 1, st.in_string, st.escape_next)

\* A scan that takes the text to begin inside a string literal.
fix_from_inside_string(json_text) == fix_scan(json_text, 1, TRUE, FALSE)

fix_unescaped_control_chars(json_text) == fix_scan(json_text, 1, FALSE, FALSE)

(***************************************************************************)
(* The repairs and extractions of the fallback strategies.                 *)
(***************************************************************************)

\* re.sub(r'//.*?$', '', text, flags=re.MULTILINE) at position i: a match runs
\* from // to the end of the line (the newline stays); out is what the result
\* gets for position i, next the position the search goes on from.
LineCommentAt(text, i) ==
    IF StartsWithAt(text, i, <<"/", "/">>)
    THEN LET nl == FindFrom(text, <<"\n">>, i)
         IN  [out |-> <<>>, next |-> IF nl = 0 THEN Len(text) + 1 ELSE nl]
    ELSE [out |-> <<text[i]>>, next |-> i + 1]

\* re.sub(r'/\*.*?\*/', '', text, flags=re.DOTALL) at position i.
BlockCommentAt(text, i) ==
    LET close == FindFrom(text, <<"*", "/">>, i + 2) IN
    IF StartsWithAt(text, i, <<"/", "*">>) /\ close # 0
    THEN [out |-> <<>>, next |-> close + 2]
    ELSE [out |-> <<text[i]>>, next |-> i + 1]

\* re.sub(r'"\s*}\s*"', '"},\n"', text) at position i.
MissingCommaBraceAt(text, i) ==
    LET j == SkipChars(text, i + 1, PyWs)
        k == SkipChars(text, j + 1, PyWs)
    IN  IF /\ text[i] = "\""
           /\ j <= Len(text) /\ text[j] = "}"
           /\ k <= Len(text) /\ text[k] = "\""
        THEN [out |-> <<"\"", "}", ",", "\n", "\"">>, next |-> k + 1]
        ELSE [out |-> <<text[i]>>, next |-> i + 1]

\* re.sub(r'"\s*\]\s*"', '"],\n"', text) at position i.
MissingCommaBracketAt(text, i) ==
    LET j == SkipChars(text, i + 1, PyWs)
        k == SkipChars(text, j + 1, PyWs)
    IN  IF /\ text[i] = "\""
           /\ j <= Len(text) /\ text[j] = "]"
           /\ k <= Len(text) /\ text[k] = "\""
        THEN [out |-> <<"\"", "]", ",", "\n", "\"">>, next |-> k + 1]
        ELSE [out |-> <<text[i]>>, next |-> i + 1]

\* The four substitutions of line 1122-1129 by name, at position i.
MatchAt(pattern, text, i) ==
    CASE pattern = "line_comment" -> LineCommentAt(text, i)
      [] pattern = "block_comment" -> BlockCommentAt(text, i)
      [] pattern = "missing_comma_brace" -> MissingCommaBraceAt(text, i)
      [] pattern = "missing_comma_bracket" -> MissingCommaBracketAt(text, i)

RECURSIVE ReSub(_, _, _)
\* re.sub over text from position i: leftmost matches, one after the other.
ReSub(pattern, text, i) ==
    IF i > Len(text) THEN <<>>
    ELSE LET m == MatchAt(pattern, text, i) IN m.out \o ReSub(pattern, text, m.next)

\* fix_json_common_issues(text)
fix_json_common_issues(text) ==
    LET t1 == RemoveTrailingCommas(text)
        t2 == ReSub("line_comment", t1, 1)
        t3 == ReSub("block_comment", t2, 1)
        t4 == ReSub("missing_comma_brace", t3, 1)
        t5 == ReSub("missing_comma_bracket", t4, 1)
    IN  Strip(t5)

\* A function of the source returning None.
None == [ok |-> FALSE, text |-> <<>>]

Some(text) == [ok |-> TRUE, text |-> text]

\* One iteration of the loop of smart_truncate_json at position i. st holds the
\* loop's variables; returned is set, with the value, when the loop returns.
truncate_step(text, i, st) ==
    LET char == text[i] IN
    IF st.escape_next THEN [st EXCEPT !.escape_next = FALSE]
    ELSE IF char = "\\" THEN [st EXCEPT !.escape_next = TRUE]
    ELSE IF char = "\"" THEN [st EXCEPT !.in_string = ~st.in_string]
    ELSE IF ~st.in_string
    THEN IF char = "{" THEN [st EXCEPT !.brace_depth = st.brace_depth + 1]
         ELSE IF char = "}"
         THEN IF st.brace_depth - 1 = 0
              THEN [st EXCEPT !.brace_depth = 0, !.returned = TRUE,
                              !.value = SubSeq(text, 1, i) \o <<"}">>]
              ELSE [st EXCEPT !.brace_depth = st.brace_depth - 1]
         ELSE IF char = ","
         THEN IF st.brace_depth = 1 THEN [st EXCEPT !.last_valid_comma = i] ELSE st
         ELSE st
    ELSE st

RECURSIVE truncate_scan(_, _, _)
\* The loop of smart_truncate_json from position i: its variables when it ends.
truncate_scan(text, i, st) ==
    IF i > Len(text) \/ st.returned THEN st
    ELSE truncate_scan(text, i + 1, truncate_step(text, i, st))

FilesLiteral == <<"\"">> \o FilesKey \o <<"\"">>

\* smart_truncate_json(text)
smart_truncate_json(text) ==
    LET files_start == Find(text, FilesLiteral)
        brace_after_files == FindFrom(text, <<"{">>, files_start)
        st == truncate_scan(text, brace_after_files + 1,
                            [in_string |-> FALSE, escape_next |-> FALSE, brace_depth |-> 1,
                             last_valid_comma |-> 0, returned |-> FALSE, value |-> <<>>])
    IN  IF files_start = 0 THEN None
        ELSE IF brace_after_files = 0 THEN None
        ELSE IF st.returned THEN Some(st.value)
        ELSE IF st.last_valid_comma # 0
        THEN Some(SubSeq(text, 1, st.last_valid_comma - 1) \o <<"\n", " ", " ", "}", "\n", "}">>)
        ELSE None

\* Line 1140-1193: the position of the comma at which smart_truncate_json cuts
\* text (last_valid_comma when the loop runs out of text), 0 when it does not
\* cut at a comma.
truncation_point(text) ==
    LET files_start == Find(text, FilesLiteral)
        brace_after_files == FindFrom(text, <<"{">>, files_start)
        st == truncate_scan(text, brace_after_files + 1,
                            [in_string |-> FALSE, escape_next |-> FALSE, brace_depth |-> 1,
                             last_valid_comma |-> 0, returned |-> FALSE, value |-> <<>>])
    IN  IF files_start = 0 \/ brace_after_files = 0 \/ st.returned THEN 0
        ELSE st.last_valid_comma

\* An iteration that takes a backslash for an escape only inside a string
\* literal.
object_step_escape_in_string(text, i, st) ==
    LET char == text[i] IN
    IF st.escape_next THEN [st EXCEPT !.escape_next = FALSE]
    ELSE IF char = "\\" /\ st.in_string THEN [st EXCEPT !.escape_next = TRUE]
    ELSE IF char = "\"" THEN [st EXCEPT !.in_string = ~st.in_string]
    ELSE IF ~st.in_string
    THEN IF char = "{" THEN [st EXCEPT !.brace_count = st.brace_count + 1]
         ELSE IF char = "}"
         THEN IF st.brace_count - 1 = 0
              THEN [st EXCEPT !.brace_count = 0, !.end = i + 1, !.broke = TRUE]
              ELSE [st EXCEPT !.brace_count = st.brace_count - 1]
         ELSE st
    ELSE st

\* One iteration of the loop of find_json_object at position i; end is set (and
\* the loop left) when the braces balance.
object_step(text, i, st) ==
    LET char == text[i] IN
    IF st.escape_next THEN [st EXCEPT !.escape_next = FALSE]
    ELSE IF char = "\\" THEN [st EXCEPT !.escape_next = TRUE]
    ELSE IF char = "\"" /\ ~st.escape_next THEN [st EXCEPT !.in_string = ~st.in_string]
    ELSE IF ~st.in_string
    THEN IF char = "{" THEN [st EXCEPT !.brace_count = st.brace_count + 1]
         ELSE IF char = "}"
         THEN IF st.brace_count - 1 = 0
              THEN [st EXCEPT !.brace_count = 0, !.end = i + 1, !.broke = TRUE]
              ELSE [st EXCEPT !.brace_count = st.brace_count - 1]
         ELSE st
    ELSE st

RECURSIVE object_scan(_, _, _)
\* The loop of find_json_object from position i: its variables when it ends.
object_scan(text, i, st) ==
    IF i > Len(text) \/ st.broke THEN st
    ELSE object_scan(text, i + 1, object_step(text, i, st))

\* find_json_object(text). start and end are positions: text[start:end] in
\* Python is SubSeq(text, start, end - 1).
find_json_object(text) ==
    LET start == Find(text, <<"{">>)
        st == object_scan(text, start,
                          [in_string |-> FALSE, escape_next |-> FALSE, brace_count |-> 0,
                           end |-> start, broke |-> FALSE])
    IN  IF start = 0 THEN None
        ELSE IF st.brace_count = 0 /\ st.end > start THEN Some(SubSeq(text, start, st.end - 1))
        ELSE None

(***************************************************************************)
(* Strategy 3's pattern and the coercion of file contents.                 *)
(***************************************************************************)

\* The first brace at or after position i, 0 if none.
NextBrace(text, i) ==
    LET hits == {j \in i..Len(text) : text[j] \in {"{", "}"}}
    IN  IF hits = {} THEN 0 ELSE CHOOSE j \in hits : \A k \in hits : j <= k

RECURSIVE PatternEnd(_, _, _)
\* r'\{[^{}]*(?:\{[^{}]*\}[^{}]*)*\}' begun by a "{" before position i: the
\* position of the "}" that ends the match, 0 if there is no match. inner says
\* that the scan is inside one of the nested {...} groups.
PatternEnd(text, i, inner) ==
    LET b == NextBrace(text, i) IN
    IF b = 0 THEN 0
    ELSE IF text[b] = "{" THEN (IF inner THEN 0 ELSE PatternEnd(text, b + 1, TRUE))
    ELSE IF inner THEN PatternEnd(text, b + 1, FALSE)
    ELSE b

RECURSIVE FindAllObjects(_, _)
\* re.findall(json_pattern, text, re.DOTALL) from position i.
FindAllObjects(text, i) ==
    IF i > Len(text) THEN <<>>
    ELSE LET e == IF text[i] = "{" THEN PatternEnd(text, i + 1, FALSE) ELSE 0 IN
         IF e # 0 THEN <<SubSeq(text, i, e)>> \o FindAllObjects(text, e + 1)
         ELSE FindAllObjects(text, i + 1)

RECURSIVE SortedByLenDesc(_)
\* sorted(matches, key=len, reverse=True): stable, the longest first.
SortedByLenDesc(matches) ==
    IF matches = <<>> THEN <<>>
    ELSE LET rest == SortedByLenDesc(SubSeq(matches, 1, Len(matches) - 1))
             m == matches[Len(matches)]
             before == {k \in 1..Len(rest) : Len(rest[k]) >= Len(m)}
             n == Cardinality(before)
         IN  SubSeq(rest, 1, n) \o <<m>> \o SubSeq(rest, n + 1, Len(rest))

\* Line 1084-1099: the text one file's content becomes.
CoerceContent(content) ==
    IF content.t = "dict"
    THEN LET lines == [i \in 1..Len(content.items) |->
                         IF content.items[i].t = "str" THEN <<content.items[i].s>>
                         ELSE IF content.items[i].t \in {"dict", "list"}
                         THEN <<PyRepr(content.items[i])>>
                         ELSE <<>>]
         IN  PyStr(JoinLines(Cat(lines)))
    ELSE IF content.t = "list"
    THEN PyStr(JoinLines([i \in 1..Len(content.items) |-> PyStrOf(content.items[i])]))
    ELSE content

\* Line 1082-1100: fixed_files for a dict files.
CoerceFiles(files) == PyDict(files.keys, [i \in 1..Len(files.items) |-> CoerceContent(files.items[i])])

\* Line 1290-1314: strategy 1 rebuilds files only when some content is a dict or a list.
CoerceFilesIfNeeded(files) ==
    LET needs_fixing == \E i \in 1..Len(files.items) : files.items[i].t \in {"dict", "list"}
    IN  IF needs_fixing THEN CoerceFiles(files) ELSE files

(***************************************************************************)
(* generate_api_with_openai from the provider's answer on (line 975-1476)  *)
(* as a process: pc is the position in the function.                       *)
(***************************************************************************)
VARIABLES
    raw,               \* response.choices[0].message.content
    origin,            \* how raw was made (the input's description, not program state)
    response_text,
    files,
    json_parsed,
    extracted_json,
    cleaned_response,
    pc,                \* "received", "parse", "strategy1", "truncate1", "strategy2",
                       \* "truncate2", "strategy3", "check", "accepted", "returned", "raised"
    error,             \* the exception that ended the call, "" if none
    tried,             \* the parse attempts made so far, in order
    language           \* config['language'], "" until it is read

\* The description of a schema made as one of the three encodings of a model M
\* with one field f of raw type t: kind "array" ([{"name": M, "fields": [{"name":
\* f, "type": t}]}]), "map" ({M: {f: t}}) or "openapi" ({"components":
\* {"schemas": {M: {"properties": {f: {"type": t}}}}}}); kind "document" is any
\* other schema.
Encoding(kind, M, f, t) == [kind |-> kind, M |-> M, f |-> f, t |-> t]

NoEncoding == Encoding("document", <<>>, <<>>, <<>>)

\* A call of normalize_schema: its argument, and what it returned or raised.
VARIABLES
    schema_document,   \* the argument
    schema_origin,     \* how schema_document was made (the input's description, not program state)
    outcome,           \* Returned(value) or Raised(exception) once the call is over
    npc                \* "idle" (no call), "called", "done"

generateVars == <<raw, origin, response_text, files, json_parsed, extracted_json,
                  cleaned_response, pc, error, tried, language>>

normalizeVars == <<schema_document, schema_origin, outcome, npc>>

\* generate_api (line 1509-1688) from its call of normalize_schema on: npc goes on
\* from "done" to "filtered", "validated", "generating" (generate_api_with_openai
\* is called) or "responded" (an error response was returned).
VARIABLES
    existing_entities, \* config.get('existing_entities'), as the set of its names
    request_schema,    \* the handler's variable schema after line 1603
    status             \* the status code of the error response, 0 while there is none

requestVars == <<existing_entities, request_schema, status>>

\* One call of one of the text functions of generate_api_with_openai on its own.
VARIABLES
    text_in,           \* the argument
    text_out,          \* what the call returned: Some(text), or None
    called             \* the function that was called, "" before the call

callVars == <<text_in, text_out, called>>

\* The model failover loop of generate_api_with_openai (line 894-972).
VARIABLES
    client_type,       \* "groq" or "openai" (line 65)
    model_calls,       \* the calls of client.chat.completions.create so far, in order: the
                       \* model asked and the text of the exception it raised (<<>> if it returned)
    response,          \* None, or Some(the content of the response that a call returned)
    last_error,        \* None, or Some(str(last_error))
    raised_message,    \* the message family of the exception raised after the loop, "" if none
    fpc                \* "loop", "after_loop", "raised", "responded"; "idle" outside the loop

providerVars == <<client_type, model_calls, response, last_error, raised_message, fpc>>

vars == <<generateVars, normalizeVars, requestVars, callVars, providerVars>>

\* No provider call is under way.
NoFailover ==
    /\ client_type = "groq"
    /\ model_calls = <<>>
    /\ response = None
    /\ last_error = None
    /\ raised_message = ""
    /\ fpc = "idle"

\* No text function is called on its own.
NoCall ==
    /\ text_in = <<>>
    /\ text_out = None
    /\ called = ""

\* Line 975-1067: fence stripping, outer-object slice, trailing commas, control characters.
PrepareText(content) ==
    fix_unescaped_control_chars(RemoveTrailingCommas(SliceOuterObject(StripFences(content))))

Prepare ==
    /\ pc = "received"
    /\ response_text' = PrepareText(raw)
    /\ pc' = "parse"
    /\ UNCHANGED <<raw, origin, files, json_parsed, extracted_json, cleaned_response, error,
                   tried, language>>
    /\ UNCHANGED <<normalizeVars, requestVars, callVars, providerVars>>

\* What a parse attempt leaves: the values of files and json_parsed, and the
\* exception that leaves the whole handler, if any.
Attempt(f, parsed, err) == [files |-> f, json_parsed |-> parsed, error |-> err]

\* A strict parse without the check of line 1105-1106: an empty files is accepted.
StrictOutcomeAcceptsEmpty(result) ==
    IF result.t # "dict" THEN Attempt(EmptyDict, FALSE, "AttributeError")
    ELSE LET got == DictGetOr(result, FilesKey, EmptyDict) IN
         IF ~Truthy(got) THEN Attempt(got, TRUE, "")
         ELSE IF got.t # "dict" THEN Attempt(got, FALSE, "AttributeError")
         ELSE Attempt(CoerceFiles(got), TRUE, "")

\* Line 1077-1106: the strict parse, given json.loads succeeded with value result.
StrictOutcome(result) ==
    IF result.t # "dict" THEN Attempt(EmptyDict, FALSE, "AttributeError")
    ELSE LET got == DictGetOr(result, FilesKey, EmptyDict) IN
         IF ~Truthy(got) THEN Attempt(got, TRUE, "ValueError")
         ELSE IF got.t # "dict" THEN Attempt(got, FALSE, "AttributeError")
         ELSE Attempt(CoerceFiles(got), TRUE, "")

StrictParse ==
    /\ pc = "parse"
    /\ tried' = Append(tried, "strict")
    /\ LET r == json_loads(response_text) IN
       IF ~r.ok
       THEN /\ pc' = "strategy1"
            /\ UNCHANGED <<files, json_parsed, error>>
       ELSE LET o == StrictOutcome(r.val) IN
            /\ files' = o.files
            /\ json_parsed' = o.json_parsed
            /\ error' = o.error
            /\ pc' = IF o.error = "" THEN "accepted" ELSE "raised"
    /\ UNCHANGED <<raw, origin, response_text, extracted_json, cleaned_response, language>>
    /\ UNCHANGED <<normalizeVars, requestVars, callVars, providerVars>>

\* Line 1286-1321: strategy 1's parse, given json.loads succeeded with value result.
\* The ValueError of line 1321 is caught at line 1322.
Strategy1Outcome(result) ==
    IF result.t # "dict" THEN Attempt(EmptyDict, FALSE, "AttributeError")
    ELSE LET got == DictGetOr(result, FilesKey, EmptyDict) IN
         IF got.t # "dict" THEN Attempt(got, FALSE, "AttributeError")
         ELSE LET fixed == CoerceFilesIfNeeded(got) IN
              IF Truthy(fixed) THEN Attempt(fixed, TRUE, "") ELSE Attempt(fixed, FALSE, "caught")

\* Line 1278-1323: find_json_object, fix_json_common_issues, parse.
Strategy1 ==
    /\ pc = "strategy1"
    /\ tried' = Append(tried, "balanced")
    /\ LET found == find_json_object(response_text)
           r == json_loads(fix_json_common_issues(found.text))
           o == Strategy1Outcome(r.val)
       IN  /\ extracted_json' = found
           /\ IF ~found.ok
              THEN /\ pc' = "strategy2"
                   /\ UNCHANGED <<files, json_parsed, error>>
              ELSE IF ~r.ok
              THEN /\ pc' = "truncate1"
                   /\ UNCHANGED <<files, json_parsed, error>>
              ELSE /\ files' = o.files
                   /\ json_parsed' = o.json_parsed
                   /\ error' = IF o.error = "caught" THEN "" ELSE o.error
                   /\ pc' = IF o.error = "caught" THEN "truncate1"
                            ELSE IF o.error = "" THEN "strategy2"
                            ELSE "raised"
    /\ UNCHANGED <<raw, origin, response_text, cleaned_response, language>>
    /\ UNCHANGED <<normalizeVars, requestVars, callVars, providerVars>>

\* Line 1330-1334 and 1377-1381: the parse of a truncated text, given json.loads
\* succeeded with value result; before holds the values on entry. len(files) in
\* the message of line 1333 and 1380 raises TypeError on a number or a boolean.
TruncateOutcome(result, before) ==
    IF result.t # "dict" THEN Attempt(before.files, before.json_parsed, "AttributeError")
    ELSE LET got == DictGetOr(result, FilesKey, EmptyDict) IN
         IF ~Truthy(got) THEN Attempt(got, before.json_parsed, "")
         ELSE IF got.t \in {"int", "bool"} THEN Attempt(got, before.json_parsed, "TypeError")
         ELSE Attempt(got, TRUE, "")

\* Line 1326-1339: smart truncation of the extracted object.
Truncate1 ==
    /\ pc = "truncate1"
    /\ tried' = Append(tried, "truncate")
    /\ LET truncated_json == smart_truncate_json(extracted_json.text)
           r == json_loads(truncated_json.text)
           o == TruncateOutcome(r.val, Attempt(files, json_parsed, ""))
       IN  IF truncated_json.ok /\ r.ok
           THEN /\ files' = o.files
                /\ json_parsed' = o.json_parsed
                /\ error' = o.error
                /\ pc' = IF o.error = "" THEN "strategy2" ELSE "raised"
                /\ UNCHANGED extracted_json
           ELSE /\ extracted_json' = None
                /\ pc' = "strategy2"
                /\ UNCHANGED <<files, json_parsed, error>>
    /\ UNCHANGED <<raw, origin, response_text, cleaned_response, language>>
    /\ UNCHANGED <<normalizeVars, requestVars, callVars, providerVars>>

\* A strategy 2 that takes a parsed value that is no object for the file map.
Strategy2OutcomeAnyValue(result, before) ==
    IF result.t # "dict" THEN Attempt(result, Truthy(result), "")
    ELSE LET got == DictGetOr(result, FilesKey, EmptyDict) IN
         IF ~Truthy(got) THEN Attempt(got, FALSE, "")
         ELSE IF got.t # "dict" THEN Attempt(got, FALSE, "AttributeError")
         ELSE Attempt(CoerceFiles(got), TRUE, "")

\* Line 1345-1368: strategy 2's parse, given json.loads succeeded with value result;
\* before is files on entry.
Strategy2Outcome(result, before) ==
    IF result.t # "dict" THEN Attempt(before, FALSE, "AttributeError")
    ELSE LET got == DictGetOr(result, FilesKey, EmptyDict) IN
         IF ~Truthy(got) THEN Attempt(got, FALSE, "")
         ELSE IF got.t # "dict" THEN Attempt(got, FALSE, "AttributeError")
         ELSE Attempt(CoerceFiles(got), TRUE, "")

\* Line 1342-1370: fix_json_common_issues on the whole text, parse.
Strategy2 ==
    /\ pc = "strategy2"
    /\ IF json_parsed
       THEN /\ pc' = "strategy3"
            /\ UNCHANGED <<files, json_parsed, error, cleaned_response, tried>>
       ELSE /\ tried' = Append(tried, "repair")
            /\ LET cleaned == fix_json_common_issues(response_text)
                   r == json_loads(cleaned)
                   o == Strategy2Outcome(r.val, files)
               IN  /\ cleaned_response' = cleaned
                   /\ IF ~r.ok
                      THEN /\ pc' = "truncate2"
                           /\ UNCHANGED <<files, json_parsed, error>>
                      ELSE /\ files' = o.files
                           /\ json_parsed' = o.json_parsed
                           /\ error' = o.error
                           /\ pc' = IF o.error = "" THEN "strategy3" ELSE "raised"
    /\ UNCHANGED <<raw, origin, response_text, extracted_json, language>>
    /\ UNCHANGED <<normalizeVars, requestVars, callVars, providerVars>>

\* Line 1373-1383: smart truncation of the repaired text.
Truncate2 ==
    /\ pc = "truncate2"
    /\ tried' = Append(tried, "truncate")
    /\ LET truncated == smart_truncate_json(cleaned_response)
           r == json_loads(truncated.text)
           o == TruncateOutcome(r.val, Attempt(files, json_parsed, ""))
       IN  IF truncated.ok /\ r.ok
           THEN /\ files' = o.files
                /\ json_parsed' = o.json_parsed
                /\ error' = o.error
                /\ pc' = IF o.error = "" THEN "strategy3" ELSE "raised"
           ELSE /\ pc' = "strategy3"
                /\ UNCHANGED <<files, json_parsed, error>>
    /\ UNCHANGED <<raw, origin, response_text, extracted_json, cleaned_response, language>>
    /\ UNCHANGED <<normalizeVars, requestVars, callVars, providerVars>>

RECURSIVE RegexLoop(_, _, _)
\* Line 1393-1400: the body of the loop for the k-th match, given what
\* json.loads made of it; f is files before it.
RegexMatch(r, matches, k, f) ==
    IF ~r.ok THEN RegexLoop(matches, k + 1, f)
    ELSE IF r.val.t # "dict" THEN Attempt(f, FALSE, "AttributeError")
    ELSE IF Truthy(DictGetOr(r.val, FilesKey, EmptyDict))
    THEN Attempt(DictGetOr(r.val, FilesKey, EmptyDict), TRUE, "")
    ELSE RegexLoop(matches, k + 1, DictGetOr(r.val, FilesKey, EmptyDict))

\* Line 1390-1400: the loop over the matches from the k-th on; f is files on entry.
RegexLoop(matches, k, f) ==
    IF k > Len(matches) THEN Attempt(f, FALSE, "")
    ELSE RegexMatch(json_loads(fix_json_common_issues(matches[k])), matches, k, f)

\* Line 1390-1400: what the loop leaves in files and json_parsed, or the
\* exception that leaves the handler.
RegexDone(o) ==
    /\ tried' = Append(tried, "regex")
    /\ files' = o.files
    /\ json_parsed' = o.json_parsed
    /\ error' = o.error
    /\ pc' = IF o.error = "" THEN "check" ELSE "raised"

\* Line 1386-1400: the pattern's matches, the longest first.
Strategy3 ==
    /\ pc = "strategy3"
    /\ IF json_parsed
       THEN /\ pc' = "check"
            /\ UNCHANGED <<files, json_parsed, error, tried>>
       ELSE RegexDone(RegexLoop(SortedByLenDesc(FindAllObjects(response_text, 1)), 1, files))
    /\ UNCHANGED <<raw, origin, response_text, extracted_json, cleaned_response, language>>
    /\ UNCHANGED <<normalizeVars, requestVars, callVars, providerVars>>

\* Line 1403-1416: all strategies failed.
FinalCheck ==
    /\ pc = "check"
    /\ IF ~json_parsed \/ ~Truthy(files)
       THEN pc' = "raised" /\ error' = "ValueError"
       ELSE pc' = "accepted" /\ UNCHANGED error
    /\ UNCHANGED <<raw, origin, response_text, files, json_parsed, extracted_json,
                   cleaned_response, tried, language>>
    /\ UNCHANGED <<normalizeVars, requestVars, callVars, providerVars>>

RequirementsTxt == <<"r", "e", "q", "u", "i", "r", "e", "m", "e", "n", "t", "s", ".", "t", "x", "t">>

SetupPy == <<"s", "e", "t", "u", "p", ".", "p", "y">>

PackageJson == <<"p", "a", "c", "k", "a", "g", "e", ".", "j", "s", "o", "n">>

ReadmeMd == <<"R", "E", "A", "D", "M", "E", ".", "m", "d">>

\* readme_content (line 1454-1466): a text made of the configuration and the
\* clock; the model keeps its first line's marker only.
ReadmeContent == <<"#">>

NodeLanguages == {"nodejs-express", "nodejs-nestjs", "typescript-express"}

PythonLanguages == {"python-flask", "python-fastapi"}

\* The keys of language_frameworks (line 673-716) and one language outside them.
Languages == NodeLanguages \cup PythonLanguages \cup {"java-spring", "nextjs-approuter", "custom"}

\* name in v: a key of a dict, an element of a list, a part of a str.
In(name, v) ==
    CASE v.t = "dict" -> HasKey(v, name)
      [] v.t = "list" -> \E i \in 1..Len(v.items) : v.items[i] = PyStr(name)
      [] v.t = "str" -> Contains(v.s, name)

\* Line 1422-1446: files_to_remove for a language, in the order it is filled.
FilesToRemove(f, lang) ==
    LET present(names) == SelectSeq(names, LAMBDA n : In(n, f)) IN
    IF lang \in NodeLanguages THEN present(<<RequirementsTxt, SetupPy>>)
    ELSE IF lang \in PythonLanguages THEN present(<<PackageJson>>)
    ELSE IF lang = "java-spring" THEN present(<<RequirementsTxt, PackageJson>>)
    ELSE <<>>

RECURSIVE DelAll(_, _)
\* Line 1449-1450
DelAll(f, names) == IF names = <<>> THEN f ELSE DelAll(DictDel(f, Head(names)), Tail(names))

\* Line 1419-1469: the clean-up by language and the README fallback, on the
\* accepted files f. A value that does not support the operation raises TypeError.
CleanupOutcome(f, lang) ==
    IF f.t \notin {"dict", "list", "str"} THEN Attempt(f, TRUE, "TypeError")
    ELSE IF f.t # "dict" /\ FilesToRemove(f, lang) # <<>> THEN Attempt(f, TRUE, "TypeError")
    ELSE LET kept == IF f.t = "dict" THEN DelAll(f, FilesToRemove(f, lang)) ELSE f IN
         IF In(ReadmeMd, kept) THEN Attempt(kept, TRUE, "")
         ELSE IF f.t # "dict" THEN Attempt(f, TRUE, "TypeError")
         ELSE Attempt(DictSet(kept, ReadmeMd, PyStr(ReadmeContent)), TRUE, "")

Cleanup ==
    /\ pc = "accepted"
    /\ \E lang \in Languages :
          /\ language' = lang
          /\ IF json_parsed /\ Truthy(files)
             THEN LET o == CleanupOutcome(files, lang) IN
                  /\ files' = o.files
                  /\ error' = o.error
                  /\ pc' = IF o.error = "" THEN "returned" ELSE "raised"
             ELSE /\ pc' = "raised"
                  /\ error' = "ValueError"
                  /\ UNCHANGED files
    /\ UNCHANGED <<raw, origin, response_text, json_parsed, extracted_json, cleaned_response,
                   tried>>
    /\ UNCHANGED <<normalizeVars, requestVars, callVars, providerVars>>

(***************************************************************************)
(* normalize_schema (line 98-226). A call either returns a value or raises; *)
(* Result holds which, with the exception's type in error.                 *)
(***************************************************************************)

UpperLetters ==
    <<"A", "B", "C", "D", "E", "F", "G", "H", "I", "J", "K", "L", "M",
      "N", "O", "P", "Q", "R", "S", "T", "U", "V", "W", "X", "Y", "Z">>

LowerLetters ==
    <<"a", "b", "c", "d", "e", "f", "g", "h", "i", "j", "k", "l", "m",
      "n", "o", "p", "q", "r", "s", "t", "u", "v", "w", "x", "y", "z">>

\* str.lower()
Lower(text) ==
    [i \in 1..Len(text) |->
        IF \E k \in 1..26 : UpperLetters[k] = text[i]
        THEN LowerLetters[CHOOSE k \in 1..26 : UpperLetters[k] = text[i]]
        ELSE text[i]]

Returned(v) == [error |-> "", val |-> v]

Raised(e) == [error |-> e, val |-> PyNone]

\* a or b
PyOr(a, b) == IF Truthy(a) THEN a ELSE b

\* d.get(k)
DictGetNone(d, k) == DictGetOr(d, k, PyNone)

\* A list or a dict is unhashable: using it as a dict key raises TypeError.
Hashable(v) == v.t \notin {"list", "dict"}

\* The key a hashable value is in a dict: a str is its text; an int, and a bool
\* (True == 1 and False == 0 hash alike), is the marker "<int>" and the digits.
KeyOf(v) ==
    CASE v.t = "str" -> v.s
      [] v.t = "int" -> <<"<int>">> \o v.s
      [] v.t = "bool" -> <<"<int>">> \o (IF v = PyTrue THEN <<"1">> ELSE <<"0">>)

\* A process_model that commits the raw type as it is written.
commit_raw_type(v) == PyStr(PyStrOf(v))

\* A rule list that tests "text" before "int".
clean_type_text_first(v) ==
    LET s == Lower(PyStrOf(v)) IN
    IF Contains(s, <<"t", "e", "x", "t">>) THEN PyStr(<<"t", "e", "x", "t">>)
    ELSE IF Contains(s, <<"i", "n", "t">>) THEN PyStr(<<"i", "n", "t", "e", "g", "e", "r">>)
    ELSE IF Contains(s, <<"b", "o", "o", "l">>) THEN PyStr(<<"b", "o", "o", "l", "e", "a", "n">>)
    ELSE IF Contains(s, <<"d", "a", "t", "e">>) /\ Contains(s, <<"t", "i", "m", "e">>)
    THEN PyStr(<<"d", "a", "t", "e", "t", "i", "m", "e">>)
    ELSE IF \/ Contains(s, <<"d", "e", "c", "i", "m", "a", "l">>)
            \/ Contains(s, <<"d", "o", "u", "b", "l", "e">>)
            \/ Contains(s, <<"n", "u", "m", "b", "e", "r">>)
    THEN PyStr(<<"f", "l", "o", "a", "t">>)
    ELSE PyStr(<<"s", "t", "r", "i", "n", "g">>)

\* Line 157-163: the type tag of a raw type v in process_model.
clean_type(v) ==
    LET s == Lower(PyStrOf(v)) IN
    IF Contains(s, <<"i", "n", "t">>) THEN PyStr(<<"i", "n", "t", "e", "g", "e", "r">>)
    ELSE IF Contains(s, <<"b", "o", "o", "l">>) THEN PyStr(<<"b", "o", "o", "l", "e", "a", "n">>)
    ELSE IF Contains(s, <<"d", "a", "t", "e">>) /\ Contains(s, <<"t", "i", "m", "e">>)
    THEN PyStr(<<"d", "a", "t", "e", "t", "i", "m", "e">>)
    ELSE IF \/ Contains(s, <<"d", "e", "c", "i", "m", "a", "l">>)
            \/ Contains(s, <<"d", "o", "u", "b", "l", "e">>)
            \/ Contains(s, <<"n", "u", "m", "b", "e", "r">>)
    THEN PyStr(<<"f", "l", "o", "a", "t">>)
    ELSE IF Contains(s, <<"t", "e", "x", "t">>) THEN PyStr(<<"t", "e", "x", "t">>)
    ELSE PyStr(<<"s", "t", "r", "i", "n", "g">>)

\* An already-normalized branch that keeps the raw type as it is written.
keep_raw_type(v) == PyStr(PyStrOf(v))

\* Line 196-202: the type tag of a raw type v in the already-normalized branch.
clean_type_normalized(v) ==
    LET s == Lower(PyStrOf(v)) IN
    IF Contains(s, <<"i", "n", "t">>) THEN PyStr(<<"i", "n", "t", "e", "g", "e", "r">>)
    ELSE IF Contains(s, <<"b", "o", "o", "l">>) THEN PyStr(<<"b", "o", "o", "l", "e", "a", "n">>)
    ELSE IF Contains(s, <<"d", "a", "t", "e">>) /\ Contains(s, <<"t", "i", "m", "e">>)
    THEN PyStr(<<"d", "a", "t", "e", "t", "i", "m", "e">>)
    ELSE IF \/ Contains(s, <<"d", "e", "c", "i", "m", "a", "l">>)
            \/ Contains(s, <<"d", "o", "u", "b", "l", "e">>)
            \/ Contains(s, <<"n", "u", "m", "b", "e", "r">>)
    THEN PyStr(<<"f", "l", "o", "a", "t">>)
    ELSE IF Contains(s, <<"t", "e", "x", "t">>) THEN PyStr(<<"t", "e", "x", "t">>)
    ELSE PyStr(<<"s", "t", "r", "i", "n", "g">>)

NameKey == <<"n", "a", "m", "e">>

TypeKey == <<"t", "y", "p", "e">>

StringTag == PyStr(<<"s", "t", "r", "i", "n", "g">>)

\* Line 113-117: one element f of a list of fields; fields is the dict so far.
extract_list_step(f, fields) ==
    LET name == PyOr(PyOr(DictGetNone(f, NameKey), DictGetNone(f, <<"f", "i", "e", "l", "d">>)),
                     DictGetNone(f, <<"c", "o", "l", "u", "m", "n">>))
        dtype == PyOr(PyOr(DictGetNone(f, TypeKey),
                           DictGetNone(f, <<"d", "a", "t", "a", "t", "y", "p", "e">>)),
                      StringTag)
    IN  IF f.t # "dict" \/ ~Truthy(name) THEN Returned(fields)
        ELSE IF ~Hashable(name) THEN Raised("TypeError")
        ELSE Returned(DictSet(fields, KeyOf(name), dtype))

RECURSIVE extract_list(_, _, _)
\* Line 112-117: the loop over a list of fields from its i-th element on.
extract_list(items, i, r) ==
    IF i > Len(items) \/ r.error # "" THEN r
    ELSE extract_list(items, i + 1, extract_list_step(items[i], r.val))

\* Line 121-125: one entry name: info of a dict of fields.
extract_dict_step(name, info, fields) ==
    IF info.t = "str" THEN DictSet(fields, name, info)
    ELSE IF info.t = "dict" THEN DictSet(fields, name, DictGetOr(info, TypeKey, StringTag))
    ELSE fields

RECURSIVE extract_dict(_, _, _)
\* Line 121-125: the loop over a dict of fields from its i-th entry on.
extract_dict(d, i, fields) ==
    IF i > Len(d.keys) THEN fields
    ELSE extract_dict(d, i + 1, extract_dict_step(d.keys[i], d.items[i], fields))

\* Line 106-127
extract_fields(field_data) ==
    IF field_data.t = "list" THEN extract_list(field_data.items, 1, Returned(EmptyDict))
    ELSE IF field_data.t = "dict" THEN Returned(extract_dict(field_data, 1, EmptyDict))
    ELSE Returned(EmptyDict)

\* Line 132
field_keys ==
    << <<"f", "i", "e", "l", "d", "s">>,
       <<"p", "r", "o", "p", "e", "r", "t", "i", "e", "s">>,
       <<"a", "t", "t", "r", "i", "b", "u", "t", "e", "s">>,
       <<"c", "o", "l", "u", "m", "n", "s">>,
       <<"F", "i", "e", "l", "d", "s">>,
       <<"P", "r", "o", "p", "e", "r", "t", "i", "e", "s">> >>

\* Line 138: the name embedded in a model.
embedded_name(model_data) ==
    PyOr(PyOr(DictGetNone(model_data, NameKey), DictGetNone(model_data, <<"m", "o", "d", "e", "l">>)),
         DictGetNone(model_data, <<"t", "i", "t", "l", "e">>))

\* Line 141-144: the fields of the first container key the model has (no fields
\* when it has none).
container_fields(model_data) ==
    LET present == {k \in 1..Len(field_keys) : HasKey(model_data, field_keys[k])}
        first == CHOOSE k \in present : \A j \in present : k <= j
    IN  IF present = {} THEN Returned(EmptyDict)
        ELSE extract_fields(DictGet(model_data, field_keys[first]))

\* Line 149
is_simple(model_data) ==
    \A i \in 1..Len(model_data.items) : model_data.items[i].t \in {"str", "dict"}

\* Line 153-165: the commit of found_fields under model_name into normalized.
commit_model(normalized, model_name, found_fields) ==
    IF ~(Truthy(model_name) /\ Truthy(found_fields)) THEN Returned(normalized)
    ELSE IF ~Hashable(model_name) THEN Raised("TypeError")
    ELSE Returned(DictSet(normalized, KeyOf(model_name),
                          PyDict(found_fields.keys,
                                 [i \in 1..Len(found_fields.items) |->
                                     clean_type(found_fields.items[i])])))

\* Line 129-165: process_model(model_data, model_name) on the dict normalized so
\* far; val is normalized after it.
process_model(normalized, model_data, model_name) ==
    IF model_data.t # "dict" THEN Returned(normalized)
    ELSE LET name == IF ~Truthy(model_name) THEN embedded_name(model_data) ELSE model_name
             in_container == container_fields(model_data)
             found_fields == IF ~Truthy(in_container.val) /\ Truthy(name) /\ is_simple(model_data)
                             THEN extract_fields(model_data).val
                             ELSE in_container.val
         IN  IF in_container.error # "" THEN in_container
             ELSE commit_model(normalized, name, found_fields)

RECURSIVE process_items(_, _, _)
\* Line 169-170: process_model(item) for the items of a list from the i-th on.
process_items(items, i, r) ==
    IF i > Len(items) \/ r.error # "" THEN r
    ELSE process_items(items, i + 1, process_model(r.val, items[i], PyNone))

RECURSIVE process_entries(_, _, _)
\* Line 176-177, 179-180, 214-215: process_model(data, name) for the entries of
\* a dict from the i-th on.
process_entries(d, i, r) ==
    IF i > Len(d.keys) \/ r.error # "" THEN r
    ELSE process_entries(d, i + 1, process_model(r.val, d.items[i], PyStr(d.keys[i])))

ComponentsKey == <<"c", "o", "m", "p", "o", "n", "e", "n", "t", "s">>

SchemasKey == <<"s", "c", "h", "e", "m", "a", "s">>

DefinitionsKey == <<"d", "e", "f", "i", "n", "i", "t", "i", "o", "n", "s">>

\* Line 184-189
is_already_normalized(schema) ==
    /\ Len(schema.keys) > 0
    /\ \A i \in 1..Len(schema.items) :
          /\ schema.items[i].t = "dict"
          /\ \A j \in 1..Len(schema.items[i].items) : schema.items[i].items[j].t = "str"

\* Line 193-204: the types of an already normalized schema.
normalize_types(schema) ==
    PyDict(schema.keys,
           [i \in 1..Len(schema.items) |->
               PyDict(schema.items[i].keys,
                      [j \in 1..Len(schema.items[i].items) |->
                          clean_type_normalized(schema.items[i].items[j])])])

\* Line 210-215: a single model first, a map of models when that built nothing.
single_or_map(schema) ==
    LET single == process_model(EmptyDict, schema, PyNone)
    IN  IF single.error # "" \/ Truthy(single.val) THEN single
        ELSE process_entries(schema, 1, single)

\* Line 175-180: the OpenAPI and Swagger containers. The test 'schemas' in
\* schema['components'] raises TypeError on a value that is no container, the
\* subscript ['schemas'] raises TypeError on a list or a str, .items() raises
\* AttributeError on a value that is no dict.
containers(schema) ==
    LET components == DictGet(schema, ComponentsKey)
        schemas == DictGet(components, SchemasKey)
        definitions == DictGet(schema, DefinitionsKey)
    IN  IF HasKey(schema, ComponentsKey) /\ components.t \notin {"dict", "list", "str"}
        THEN Raised("TypeError")
        ELSE IF HasKey(schema, ComponentsKey) /\ In(SchemasKey, components)
        THEN IF components.t # "dict" THEN Raised("TypeError")
             ELSE IF schemas.t # "dict" THEN Raised("AttributeError")
             ELSE process_entries(schemas, 1, Returned(EmptyDict))
        ELSE IF definitions.t # "dict" THEN Raised("AttributeError")
        ELSE process_entries(definitions, 1, Returned(EmptyDict))

\* Line 168-215: the dict normalized that the strategies build.
build_normalized(schema) ==
    IF schema.t = "list" THEN process_items(schema.items, 1, Returned(EmptyDict))
    ELSE IF schema.t # "dict" THEN Returned(EmptyDict)
    ELSE IF \/ HasKey(schema, ComponentsKey) /\ DictGet(schema, ComponentsKey).t \notin {"dict", "list", "str"}
            \/ HasKey(schema, ComponentsKey) /\ In(SchemasKey, DictGet(schema, ComponentsKey))
            \/ HasKey(schema, DefinitionsKey)
    THEN containers(schema)
    ELSE IF is_already_normalized(schema) THEN Returned(normalize_types(schema))
    ELSE single_or_map(schema)

\* Line 218-224: an empty normalized becomes the schema itself when the schema
\* is a non-empty dict of dicts.
last_resort(normalized, schema) ==
    IF /\ ~Truthy(normalized)
       /\ schema.t = "dict"
       /\ Len(schema.keys) > 0
       /\ \A i \in 1..Len(schema.items) : schema.items[i].t = "dict"
    THEN schema
    ELSE normalized

\* Line 98-226
normalize_schema(schema) ==
    LET built == build_normalized(schema)
        normalized == last_resort(built.val, schema)
    IN  IF built.error # "" THEN built
        ELSE Returned(IF Truthy(normalized) THEN normalized ELSE schema)

\* Line 165: some item of the list gets a model committed (normalized[model_name]
\* = clean_fields is reached) before the loop of line 169-170 ends or raises.
commits_in_items(items) ==
    \E k \in 0..Len(items) :
        LET r == process_items(SubSeq(items, 1, k), 1, Returned(EmptyDict))
        IN  r.error = "" /\ Truthy(r.val)

\* Line 165: some entry of the dict gets a model committed before the loop over
\* its entries ends or raises.
commits_in_entries(d) ==
    \E k \in 0..Len(d.keys) :
        LET r == process_entries(PyDict(SubSeq(d.keys, 1, k), SubSeq(d.items, 1, k)), 1,
                                 Returned(EmptyDict))
        IN  r.error = "" /\ Truthy(r.val)

\* Line 165 and 204: the call commits at least one model into normalized,
\* whether it then returns or raises.
commits_model(schema) ==
    IF schema.t = "list" THEN commits_in_items(schema.items)
    ELSE IF schema.t # "dict" THEN FALSE
    ELSE IF HasKey(schema, ComponentsKey) /\ DictGet(schema, ComponentsKey).t \notin {"dict", "list", "str"}
    THEN FALSE
    ELSE IF HasKey(schema, ComponentsKey) /\ In(SchemasKey, DictGet(schema, ComponentsKey))
    THEN /\ DictGet(schema, ComponentsKey).t = "dict"
         /\ DictGet(DictGet(schema, ComponentsKey), SchemasKey).t = "dict"
         /\ commits_in_entries(DictGet(DictGet(schema, ComponentsKey), SchemasKey))
    ELSE IF HasKey(schema, DefinitionsKey)
    THEN /\ DictGet(schema, DefinitionsKey).t = "dict"
         /\ commits_in_entries(DictGet(schema, DefinitionsKey))
    ELSE IF is_already_normalized(schema) THEN TRUE
    ELSE IF process_model(EmptyDict, schema, PyNone).error # "" THEN FALSE
    ELSE \/ Truthy(process_model(EmptyDict, schema, PyNone).val)
         \/ commits_in_entries(schema)

(***************************************************************************)
(* The inputs: what the provider may answer.                               *)
(***************************************************************************)

\* The largest number of entries of a serialized file map.
MaxFiles == 2

\* Relative paths with forward slashes, the keys of the file maps, in order.
Paths == <<<<"a">>, <<"b", "/", "c">>, <<"d">>, <<"e", "/", "f">>>>

\* File contents: plain text, and text holding JSON's structural characters,
\* comment markers, quotes, backslashes and line breaks.
Contents ==
    { <<"x">>,
      <<>>,
      <<",", "}">>,
      <<"}">>,
      <<"{">>,
      <<",", " ", "]">>,
      <<"/", "/">>,
      <<"\"">>,
      <<"\\">>,
      <<"\n">>,
      <<"/", "*">> }

\* The file maps of 1..MaxFiles entries over Paths and Contents.
FileMaps ==
    UNION {{PyDict(SubSeq(Paths, 1, n), [i \in 1..n |-> PyStr(c[i])]) : c \in [1..n -> Contents]} :
           n \in 1..Min(MaxFiles, Len(Paths))}

\* The first n entries of file map F.
FirstEntries(F, n) == PyDict(SubSeq(F.keys, 1, n), SubSeq(F.items, 1, n))

\* json.dumps({"files": F}) cut off right after the comma that follows the
\* n-th entry (n < the number of entries).
CutDoc(F, n) ==
    LET whole == DumpFilesDoc(FirstEntries(F, n))
    IN  SubSeq(whole, 1, Len(whole) - 2) \o <<",">>

\* Texts a file entry's value is written as: a string, a string with a raw line
\* break and tab in it, an object, an array, a number, true, null.
ValueTexts ==
    { <<"\"", "x", "\"">>,
      <<"\"", "x", "\n", "y", "\t", "z", "\"">>,
      <<"{", "\"", "k", "\"", ":", "\"", "x", "\"", ",", "\"", "m", "\"", ":", "\"", "y", "\"", "}">>,
      <<"[", "\"", "x", "\"", ",", "\"", "y", "\"", "]">>,
      <<"1">>,
      <<"t", "r", "u", "e">>,
      <<"n", "u", "l", "l">>,
      <<"[", "1", ",", "{", "\"", "k", "\"", ":", "\"", "x", "\"", "}", "]">> }

\* The inside of the files object for a first value v: no entry, one entry, two
\* entries, two entries with the comma between them missing.
InnerTexts ==
    {<<>>} \cup
    UNION {{<<"\"", "a", "\"", ":">> \o v,
            <<"\"", "a", "\"", ":">> \o v \o <<",", "\"", "b", "\"", ":", "\"", "y", "\"">>,
            <<"\"", "a", "\"", ":">> \o v \o <<" ", "\"", "b", "\"", ":", "\"", "y", "\"">>} : v \in ValueTexts}

\* Texts the `files` key's value is written as: an object (closed, with a
\* trailing comma, cut after a comma, cut open) or something else.
FilesTexts ==
    UNION {{<<"{">> \o i \o <<"}">>, <<"{">> \o i \o <<",", "}">>,
            <<"{">> \o i \o <<",">>, <<"{">> \o i} : i \in InnerTexts}
    \cup { <<"[", "]">>,
        <<"[", "\"", "x", "\"", "]">>,
        <<"0">>,
        <<"1">>,
        <<"n", "u", "l", "l">>,
        <<"\"", "x", "\"">>,
        <<"\"", "\"">>,
        <<"t", "r", "u", "e">>,
        <<"f", "a", "l", "s", "e">> }

\* The document around it: complete, cut open, without a "files" key, with a
\* second key after it.
BodyTexts ==
    UNION {{<<"{", "\"", "f", "i", "l", "e", "s", "\"", ":">> \o f \o <<"}">>,
            <<"{", "\"", "f", "i", "l", "e", "s", "\"", ":">> \o f,
            <<"{", "\"", "n", "\"", ":">> \o f \o <<"}">>,
            <<"{", "\"", "f", "i", "l", "e", "s", "\"", ":">> \o f \o <<",", "\"", "n", "\"", ":", "1", "}">>} : f \in FilesTexts}

\* What the provider puts around the document: nothing, a markdown fence, prose,
\* a comment, a stray brace before or after.
Wrappers ==
    { <<<<>>, <<>>>>,
      <<FenceJson \o <<"\n">>, <<"\n">> \o Fence>>,
      <<<<"o", "k", " ">>, <<" ", "d", "o", "n", "e">>>>,
      <<<<>>, <<" ", "/", "/", " ", "c">>>>,
      <<<<"{", " ">>, <<>>>>,
      <<<<>>, <<" ", "}">>>> }

TemplateDocs == {w[1] \o b \o w[2] : w \in Wrappers, b \in BodyTexts}

\* Texts that are no object, or no document with a file map, at all.
OtherDocs ==
    { <<>>,
      \* {"files": {"a": {"files": {"b": "x"}}
      <<"{", "\"", "f", "i", "l", "e", "s", "\"", ":", " ", "{", "\"", "a", "\"", ":", " ", "{", "\"", "f", "i", "l", "e", "s", "\"", ":", " ", "{", "\"", "b", "\"", ":", " ", "\"", "x", "\"", "}", "}">>,
      <<"x">>,
      <<"1">>,
      <<"\"", "x", "\"">>,
      <<"[", "1", "]">>,
      <<"1", " ", "/", "/", " ", "c">>,
      <<"[", "1", "]", " ", "/", "*", "c", "*", "/">>,
      <<"n", "u", "l", "l">>,
      <<"t", "r", "u", "e">>,
      <<"\"", "a", "{", "\"">>,
      <<"{">>,
      <<"}">>,
      <<"}", " ", "{">>,
      <<"[", "1", "]", " ", "/", "/", " ", "{">>,
      <<"\"", "f", "i", "l", "e", "s", "\"", " ", "{", "\"", "a", "\"", ":", "\"", "x", "\"", ",">>,
      <<"[", "{", "\"", "f", "i", "l", "e", "s", "\"", ":", "{", "\"", "a", "\"", ":", "\"", "x", "\"", ",", "\"", "b", "\"", ":", "\"", "y", "\"", "}", "}", "]">> }

\* Documents whose file map holds the names the clean-up by language looks
\* for, and cut documents whose "files" value is a list, a string or a number
\* and that truncation recovery completes.
CleanupDocs ==
    { <<"{", "\"", "f", "i", "l", "e", "s", "\"", ":", "{", "\"", "p", "a", "c", "k", "a", "g", "e", ".", "j", "s", "o", "n", "\"", ":", "\"", "x", "\"", "}", "}">>,
      <<"{", "\"", "f", "i", "l", "e", "s", "\"", ":", "{", "\"", "r", "e", "q", "u", "i", "r", "e", "m", "e", "n", "t", "s", ".", "t", "x", "t", "\"", ":", "\"", "x", "\"", ",", "\"", "s", "e", "t", "u", "p", ".", "p", "y", "\"", ":", "\"", "y", "\"", ",", "\"", "a", "\"", ":", "\"", "z", "\"", "}", "}">>,
      <<"{", "\"", "f", "i", "l", "e", "s", "\"", ":", "{", "\"", "R", "E", "A", "D", "M", "E", ".", "m", "d", "\"", ":", "\"", "r", "\"", ",", "\"", "p", "a", "c", "k", "a", "g", "e", ".", "j", "s", "o", "n", "\"", ":", "\"", "x", "\"", "}", "}">>,
      <<"{", "\"", "f", "i", "l", "e", "s", "\"", ":", "{", "\"", "r", "e", "q", "u", "i", "r", "e", "m", "e", "n", "t", "s", ".", "t", "x", "t", "\"", ":", "\"", "x", "\"", ",", "\"", "p", "a", "c", "k", "a", "g", "e", ".", "j", "s", "o", "n", "\"", ":", "\"", "y", "\"", "}", "}">>,
      <<"{", "\"", "f", "i", "l", "e", "s", "\"", ":", "[", "\"", "p", "a", "c", "k", "a", "g", "e", ".", "j", "s", "o", "n", "\"", "]", ",", "\"", "n", "\"", ":", "{", "}", ",">>,
      <<"{", "\"", "f", "i", "l", "e", "s", "\"", ":", "\"", "s", "e", "t", "u", "p", ".", "p", "y", "\"", ",", "\"", "n", "\"", ":", "{", "}", ",">>,
      <<"{", "\"", "f", "i", "l", "e", "s", "\"", ":", "\"", "R", "E", "A", "D", "M", "E", ".", "m", "d", "\"", ",", "\"", "n", "\"", ":", "{", "}", ",">>,
      <<"{", "\"", "f", "i", "l", "e", "s", "\"", ":", "1", ",", "\"", "n", "\"", ":", "{", "}", ",">>,
      <<"{", "\"", "f", "i", "l", "e", "s", "\"", ":", "[", "\"", "R", "E", "A", "D", "M", "E", ".", "m", "d", "\"", "]", ",", "\"", "n", "\"", ":", "{", "}", ",">> }

\* The input's description: kind "dump" (the serialization of file map F),
\* "cut" (that serialization cut after the comma following entry number keep)
\* or "text" (any other text).
Origin(kind, F, keep) == [kind |-> kind, F |-> F, keep |-> keep]

Init ==
    /\ \/ \E F \in FileMaps :
             /\ origin = Origin("dump", F, Len(F.keys))
             /\ raw = DumpFilesDoc(F)
       \/ \E F \in FileMaps : \E n \in 1..(Len(F.keys) - 1) :
             /\ origin = Origin("cut", F, n)
             /\ raw = CutDoc(F, n)
       \/ /\ origin = Origin("text", EmptyDict, 0)
          /\ raw \in TemplateDocs \cup OtherDocs \cup CleanupDocs
    /\ response_text = <<>>
    /\ files = EmptyDict
    /\ json_parsed = FALSE
    /\ extracted_json = None
    /\ cleaned_response = <<>>
    /\ pc = "received"
    /\ error = ""
    /\ tried = <<>>
    /\ language = ""
    /\ schema_document = PyNone
    /\ schema_origin = NoEncoding
    /\ outcome = Returned(PyNone)
    /\ npc = "idle"
    /\ existing_entities = {}
    /\ request_schema = PyNone
    /\ status = 0
    /\ NoCall
    /\ NoFailover

Next ==
    \/ Prepare
    \/ StrictParse
    \/ Strategy1
    \/ Truncate1
    \/ Strategy2
    \/ Truncate2
    \/ Strategy3
    \/ FinalCheck
    \/ Cleanup

Spec == Init /\ [][Next]_vars

(***************************************************************************)
(* The inputs of normalize_schema and the call.                            *)
(***************************************************************************)

FieldsKey == <<"f", "i", "e", "l", "d", "s">>

PropertiesKey == <<"p", "r", "o", "p", "e", "r", "t", "i", "e", "s">>

\* [{"name": M, "fields": [{"name": f, "type": t}]}]
ArrayEncoding(M, f, t) ==
    PyList(<<PyDict(<<NameKey, FieldsKey>>,
                    <<PyStr(M), PyList(<<PyDict(<<NameKey, TypeKey>>, <<PyStr(f), PyStr(t)>>)>>)>>)>>)

\* {M: {f: t}}
MapEncoding(M, f, t) == PyDict(<<M>>, <<PyDict(<<f>>, <<PyStr(t)>>)>>)

\* {"components": {"schemas": {M: {"properties": {f: {"type": t}}}}}}
OpenApiEncoding(M, f, t) ==
    PyDict(<<ComponentsKey>>,
           <<PyDict(<<SchemasKey>>,
                    <<PyDict(<<M>>,
                             <<PyDict(<<PropertiesKey>>,
                                      <<PyDict(<<f>>, <<PyDict(<<TypeKey>>, <<PyStr(t)>>)>>)>>)>>)>>)>>)

\* Model names: two plain ones, the two container keys, the empty name.
ModelNames ==
    { <<"U", "s", "e", "r">>, <<"O", "r", "d", "e", "r">>, DefinitionsKey, ComponentsKey, <<>> }

\* Field names: a plain one, the container key of components, the empty name.
FieldNames == { <<"i", "d">>, SchemasKey, <<>> }

\* Raw type strings.
RawTypes ==
    { <<"V", "A", "R", "C", "H", "A", "R">>,
      <<"B", "O", "O", "L">>,
      <<"T", "I", "M", "E", "S", "T", "A", "M", "P">>,
      <<"D", "O", "U", "B", "L", "E">>,
      <<"T", "E", "X", "T">>,
      <<"I", "N", "T", "4">>,
      <<"i", "n", "t">>,
      <<"i", "n", "t", "e", "g", "e", "r">>,
      <<"d", "a", "t", "e", "t", "i", "m", "e">>,
      <<"D", "e", "c", "i", "m", "a", "l">>,
      <<"N", "u", "m", "b", "e", "r">>,
      <<"d", "a", "t", "e">>,
      <<>>,
      <<"P", "o", "i", "n", "t">>,
      <<"t", "e", "x", "t", "_", "i", "n", "t">>,
      <<"s", "t", "r", "i", "n", "g">> }

\* Schema documents as JSON texts: scalars, containers of unexpected type,
\* names of unexpected type, models without fields, several models.
SchemaTexts ==
    { <<"5">>,
      \* {"name":"User","id":"int"}
      <<"{", "\"", "n", "a", "m", "e", "\"", ":", "\"", "U", "s", "e", "r", "\"", ",", "\"", "i", "d", "\"", ":", "\"", "i", "n", "t", "\"", "}">>,
      \* {"definitions":{"":{"name":"X","fields":{"a":"int"}}}}
      <<"{", "\"", "d", "e", "f", "i", "n", "i", "t", "i", "o", "n", "s", "\"", ":", "{", "\"", "\"", ":", "{", "\"", "n", "a", "m", "e", "\"", ":", "\"", "X", "\"", ",", "\"", "f", "i", "e", "l", "d", "s", "\"", ":", "{", "\"", "a", "\"", ":", "\"", "i", "n", "t", "\"", "}", "}", "}", "}">>,
      \* [{"name":"User","fields":{},"id":"int"}]
      <<"[", "{", "\"", "n", "a", "m", "e", "\"", ":", "\"", "U", "s", "e", "r", "\"", ",", "\"", "f", "i", "e", "l", "d", "s", "\"", ":", "{", "}", ",", "\"", "i", "d", "\"", ":", "\"", "i", "n", "t", "\"", "}", "]">>,
      <<"\"", "x", "\"">>,
      <<"n", "u", "l", "l">>,
      <<"t", "r", "u", "e">>,
      <<"[", "]">>,
      <<"{", "}">>,
      <<"[", "1", ",", "\"", "a", "\"", "]">>,
      <<"{", "\"", "c", "o", "m", "p", "o", "n", "e", "n", "t", "s", "\"", ":", "5", "}">>,
      <<"{", "\"", "c", "o", "m", "p", "o", "n", "e", "n", "t", "s", "\"", ":", "n", "u", "l", "l", "}">>,
      <<"{", "\"", "c", "o", "m", "p", "o", "n", "e", "n", "t", "s", "\"", ":", "\"", "s", "c", "h", "e", "m", "a", "s", "\"", "}">>,
      <<"{", "\"", "c", "o", "m", "p", "o", "n", "e", "n", "t", "s", "\"", ":", "[", "\"", "s", "c", "h", "e", "m", "a", "s", "\"", "]", "}">>,
      <<"{", "\"", "c", "o", "m", "p", "o", "n", "e", "n", "t", "s", "\"", ":", "[", "\"", "x", "\"", "]", "}">>,
      <<"{", "\"", "c", "o", "m", "p", "o", "n", "e", "n", "t", "s", "\"", ":", "{", "\"", "s", "c", "h", "e", "m", "a", "s", "\"", ":", "[", "1", "]", "}", "}">>,
      <<"{", "\"", "c", "o", "m", "p", "o", "n", "e", "n", "t", "s", "\"", ":", "{", "\"", "s", "c", "h", "e", "m", "a", "s", "\"", ":", "{", "}", "}", "}">>,
      <<"{", "\"", "c", "o", "m", "p", "o", "n", "e", "n", "t", "s", "\"", ":", "{", "\"", "x", "\"", ":", "1", "}", ",", "\"", "d", "e", "f", "i", "n", "i", "t", "i", "o", "n", "s", "\"", ":", "{", "\"", "U", "\"", ":", "{", "\"", "i", "d", "\"", ":", "\"", "i", "n", "t", "\"", "}", "}", "}">>,
      <<"{", "\"", "d", "e", "f", "i", "n", "i", "t", "i", "o", "n", "s", "\"", ":", "1", "}">>,
      <<"{", "\"", "d", "e", "f", "i", "n", "i", "t", "i", "o", "n", "s", "\"", ":", "{", "\"", "U", "\"", ":", "{", "\"", "i", "d", "\"", ":", "\"", "I", "n", "t", "\"", "}", "}", "}">>,
      <<"{", "\"", "d", "e", "f", "i", "n", "i", "t", "i", "o", "n", "s", "\"", ":", "{", "\"", "U", "\"", ":", "5", "}", "}">>,
      <<"[", "{", "\"", "n", "a", "m", "e", "\"", ":", "[", "\"", "a", "\"", "]", ",", "\"", "f", "i", "e", "l", "d", "s", "\"", ":", "{", "\"", "i", "d", "\"", ":", "\"", "i", "n", "t", "\"", "}", "}", "]">>,
      <<"[", "{", "\"", "n", "a", "m", "e", "\"", ":", "\"", "U", "\"", ",", "\"", "f", "i", "e", "l", "d", "s", "\"", ":", "[", "{", "\"", "n", "a", "m", "e", "\"", ":", "[", "\"", "x", "\"", "]", ",", "\"", "t", "y", "p", "e", "\"", ":", "\"", "i", "n", "t", "\"", "}", "]", "}", "]">>,
      <<"[", "{", "\"", "n", "a", "m", "e", "\"", ":", "{", "\"", "a", "\"", ":", "1", "}", ",", "\"", "i", "d", "\"", ":", "\"", "i", "n", "t", "\"", "}", "]">>,
      <<"{", "\"", "U", "s", "e", "r", "\"", ":", "{", "\"", "i", "d", "\"", ":", "\"", "i", "n", "t", "\"", "}", ",", "\"", "E", "m", "p", "t", "y", "\"", ":", "{", "}", "}">>,
      <<"{", "\"", "U", "s", "e", "r", "\"", ":", "{", "\"", "i", "d", "\"", ":", "\"", "i", "n", "t", "\"", "}", ",", "\"", "O", "r", "d", "e", "r", "\"", ":", "{", "\"", "n", "\"", ":", "5", "}", "}">>,
      <<"[", "{", "\"", "n", "a", "m", "e", "\"", ":", "\"", "U", "\"", ",", "\"", "f", "i", "e", "l", "d", "s", "\"", ":", "[", "]", "}", "]">>,
      <<"[", "{", "\"", "n", "a", "m", "e", "\"", ":", "5", ",", "\"", "f", "i", "e", "l", "d", "s", "\"", ":", "{", "\"", "a", "\"", ":", "\"", "b", "\"", "}", "}", "]">>,
      <<"[", "{", "\"", "n", "a", "m", "e", "\"", ":", "t", "r", "u", "e", ",", "\"", "f", "i", "e", "l", "d", "s", "\"", ":", "{", "\"", "a", "\"", ":", "\"", "b", "\"", "}", "}", ",", "{", "\"", "n", "a", "m", "e", "\"", ":", "1", ",", "\"", "f", "i", "e", "l", "d", "s", "\"", ":", "{", "\"", "c", "\"", ":", "\"", "t", "e", "x", "t", "\"", "}", "}", "]">>,
      <<"{", "\"", "n", "a", "m", "e", "\"", ":", "\"", "U", "\"", ",", "\"", "f", "i", "e", "l", "d", "s", "\"", ":", "[", "{", "\"", "n", "a", "m", "e", "\"", ":", "\"", "i", "d", "\"", "}", "]", "}">>,
      <<"[", "{", "\"", "m", "o", "d", "e", "l", "\"", ":", "\"", "U", "\"", ",", "\"", "c", "o", "l", "u", "m", "n", "s", "\"", ":", "[", "{", "\"", "c", "o", "l", "u", "m", "n", "\"", ":", "\"", "c", "\"", ",", "\"", "d", "a", "t", "a", "t", "y", "p", "e", "\"", ":", "\"", "B", "O", "O", "L", "\"", "}", "]", "}", "]">>,
      <<"[", "{", "\"", "t", "i", "t", "l", "e", "\"", ":", "\"", "T", "\"", ",", "\"", "p", "r", "o", "p", "e", "r", "t", "i", "e", "s", "\"", ":", "{", "\"", "a", "\"", ":", "{", "\"", "t", "y", "p", "e", "\"", ":", "[", "\"", "I", "n", "t", "\"", "]", "}", "}", "}", "]">>,
      <<"{", "\"", "U", "\"", ":", "{", "\"", "i", "d", "\"", ":", "{", "\"", "t", "y", "p", "e", "\"", ":", "n", "u", "l", "l", "}", "}", "}">>,
      <<"[", "{", "\"", "n", "a", "m", "e", "\"", ":", "\"", "U", "\"", ",", "\"", "f", "i", "e", "l", "d", "s", "\"", ":", "[", "{", "\"", "n", "a", "m", "e", "\"", ":", "\"", "a", "\"", ",", "\"", "t", "y", "p", "e", "\"", ":", "{", "\"", "x", "\"", ":", "\"", "D", "a", "t", "e", "T", "i", "m", "e", "\"", "}", "}", "]", "}", "]">>,
      <<"{", "\"", "U", "\"", ":", "{", "\"", "i", "d", "\"", ":", "t", "r", "u", "e", "}", "}">>,
      <<"[", "{", "\"", "n", "a", "m", "e", "\"", ":", "\"", "U", "\"", ",", "\"", "F", "i", "e", "l", "d", "s", "\"", ":", "{", "\"", "a", "\"", ":", "\"", "t", "e", "x", "t", "\"", "}", ",", "\"", "f", "i", "e", "l", "d", "s", "\"", ":", "5", "}", "]">>,
      <<"{", "\"", "U", "\"", ":", "5", "}">>,
      <<"{", "\"", "U", "\"", ":", "{", "\"", "i", "d", "\"", ":", "5", "}", "}">>,
      <<"[", "{", "\"", "n", "a", "m", "e", "\"", ":", "\"", "U", "\"", ",", "\"", "a", "\"", ":", "\"", "N", "u", "m", "b", "e", "r", "\"", ",", "\"", "b", "\"", ":", "{", "}", "}", ",", "5", ",", "{", "\"", "n", "a", "m", "e", "\"", ":", "\"", "\"", ",", "\"", "c", "\"", ":", "\"", "x", "\"", "}", "]">>,
      <<"[", "{", "\"", "n", "a", "m", "e", "\"", ":", "\"", "A", "\"", ",", "\"", "f", "i", "e", "l", "d", "s", "\"", ":", "{", "\"", "x", "\"", ":", "\"", "i", "n", "t", "\"", "}", "}", ",", "{", "\"", "n", "a", "m", "e", "\"", ":", "\"", "A", "\"", ",", "\"", "f", "i", "e", "l", "d", "s", "\"", ":", "[", "1", "]", "}", ",", "{", "\"", "n", "a", "m", "e", "\"", ":", "\"", "A", "\"", ",", "\"", "f", "i", "e", "l", "d", "s", "\"", ":", "{", "\"", "y", "\"", ":", "\"", "t", "e", "x", "t", "\"", "}", "}", "]">> }

\* No call of generate_api_with_openai is under way.
NoGeneration ==
    /\ raw = <<>>
    /\ origin = Origin("text", EmptyDict, 0)
    /\ response_text = <<>>
    /\ files = EmptyDict
    /\ json_parsed = FALSE
    /\ extracted_json = None
    /\ cleaned_response = <<>>
    /\ pc = "idle"
    /\ error = ""
    /\ tried = <<>>
    /\ language = ""

\* The schema the caller passes: one of the three encodings of one model with
\* one field, or a parsed schema text.
SchemaReceived ==
    \/ \E M \in ModelNames, f \in FieldNames, t \in RawTypes :
          \/ schema_origin = Encoding("array", M, f, t) /\ schema_document = ArrayEncoding(M, f, t)
          \/ schema_origin = Encoding("map", M, f, t) /\ schema_document = MapEncoding(M, f, t)
          \/ schema_origin = Encoding("openapi", M, f, t) /\ schema_document = OpenApiEncoding(M, f, t)
    \/ \E text \in SchemaTexts :
          /\ schema_origin = NoEncoding
          /\ schema_document = json_loads(text).val

InitNormalize ==
    /\ SchemaReceived
    /\ outcome = Returned(PyNone)
    /\ npc = "called"
    /\ NoGeneration
    /\ existing_entities = {}
    /\ request_schema = PyNone
    /\ status = 0
    /\ NoCall
    /\ NoFailover

\* The call of normalize_schema(schema_document).
Normalize ==
    /\ npc = "called"
    /\ outcome' = normalize_schema(schema_document)
    /\ npc' = "done"
    /\ UNCHANGED <<schema_document, schema_origin, generateVars, requestVars, callVars, providerVars>>

NextNormalize == Normalize

SpecNormalize == InitNormalize /\ [][NextNormalize]_vars

(***************************************************************************)
(* generate_api from line 1603 on: the normalized schema is filtered,      *)
(* validated and handed to generate_api_with_openai.                       *)
(***************************************************************************)

\* The names config['existing_entities'] may hold (line 1577-1599): none, or the
\* classes of a loaded project.
ExistingEntities ==
    { {}, {<<"U", "s", "e", "r">>}, {<<"U">>}, {<<"U", "s", "e", "r">>, <<"O", "r", "d", "e", "r">>} }

InitGenerateApi ==
    /\ SchemaReceived
    /\ outcome = Returned(PyNone)
    /\ npc = "called"
    /\ NoGeneration
    /\ existing_entities \in ExistingEntities
    /\ request_schema = PyNone
    /\ status = 0
    /\ NoCall
    /\ NoFailover

\* Line 1687-1688: an exception of normalize_schema reaches the handler's
\* except clause, which answers with status 500.
HandleException ==
    /\ npc = "done"
    /\ outcome.error # ""
    /\ status' = 500
    /\ npc' = "responded"
    /\ UNCHANGED <<schema_document, schema_origin, outcome, generateVars, callVars, providerVars,
                   existing_entities, request_schema>>

RECURSIVE filter_entities(_, _, _)
\* Line 1612-1618: filtered_schema, from the i-th entry of the schema on.
filter_entities(schema, i, filtered_schema) ==
    IF i > Len(schema.keys) THEN filtered_schema
    ELSE filter_entities(schema, i + 1,
                         IF schema.keys[i] \notin existing_entities
                         THEN DictSet(filtered_schema, schema.keys[i], schema.items[i])
                         ELSE filtered_schema)

\* Line 1610-1632: the entities of a loaded project are taken out of the
\* schema. schema.copy() raises AttributeError on a value that is no dict and
\* no list, schema.items() on a list; an empty filtered_schema is answered with
\* status 400.
FilterExisting ==
    /\ npc = "done"
    /\ outcome.error = ""
    /\ IF existing_entities = {}
       THEN /\ request_schema' = outcome.val
            /\ npc' = "filtered"
            /\ UNCHANGED status
       ELSE IF outcome.val.t # "dict"
       THEN /\ status' = 500
            /\ npc' = "responded"
            /\ request_schema' = outcome.val
       ELSE IF ~Truthy(filter_entities(outcome.val, 1, EmptyDict))
       THEN /\ status' = 400
            /\ npc' = "responded"
            /\ request_schema' = outcome.val
       ELSE /\ request_schema' = filter_entities(outcome.val, 1, EmptyDict)
            /\ npc' = "filtered"
            /\ UNCHANGED status
    /\ UNCHANGED <<schema_document, schema_origin, outcome, generateVars, callVars, providerVars, existing_entities>>

\* Line 1635-1646: the validation of the normalized schema: a non-empty dict
\* whose values are all dicts.
ValidateSchema ==
    /\ npc = "filtered"
    /\ IF request_schema.t # "dict" \/ ~Truthy(request_schema)
       THEN status' = 400 /\ npc' = "responded"
       ELSE IF ~(\A i \in 1..Len(request_schema.items) : request_schema.items[i].t = "dict")
       THEN status' = 400 /\ npc' = "responded"
       ELSE npc' = "validated" /\ UNCHANGED status
    /\ UNCHANGED <<schema_document, schema_origin, outcome, generateVars, callVars, providerVars,
                   existing_entities, request_schema>>

\* Line 1650: generate_api_with_openai(config, schema) is called.
CallGenerate ==
    /\ npc = "validated"
    /\ npc' = "generating"
    /\ UNCHANGED <<schema_document, schema_origin, outcome, generateVars, callVars, providerVars, requestVars>>

NextGenerateApi ==
    \/ Normalize
    \/ HandleException
    \/ FilterExisting
    \/ ValidateSchema
    \/ CallGenerate

SpecGenerateApi == InitGenerateApi /\ [][NextGenerateApi]_vars

(***************************************************************************)
(* The text functions of generate_api_with_openai, each called on its own. *)
(***************************************************************************)

\* The longest text of EscapeTexts.
MaxTextLen == 4

\* Quotes, backslashes, the control characters and a letter.
EscapeAlphabet == {"\"", "\\", "\n", "\r", "\t", "\f", "n"}

\* Every text of at most MaxTextLen characters over EscapeAlphabet.
EscapeTexts == UNION {[1..k -> EscapeAlphabet] : k \in 0..MaxTextLen}

\* The serializations of the file maps, whole and cut after an entry.
DumpTexts ==
    {DumpFilesDoc(F) : F \in FileMaps}
    \cup UNION {{CutDoc(F, n) : n \in 1..(Len(F.keys) - 1)} : F \in FileMaps}

InitCalls ==
    /\ text_in \in EscapeTexts \cup DumpTexts \cup TemplateDocs \cup OtherDocs
    /\ text_out = None
    /\ called = ""
    /\ NoGeneration
    /\ NoFailover
    /\ schema_document = PyNone
    /\ schema_origin = NoEncoding
    /\ outcome = Returned(PyNone)
    /\ npc = "idle"
    /\ existing_entities = {}
    /\ request_schema = PyNone
    /\ status = 0

\* Line 1000: re.sub(r',(\s*[}\]])', r'\1', response_text)
CallRemoveTrailingCommas ==
    /\ called = ""
    /\ text_out' = Some(RemoveTrailingCommas(text_in))
    /\ called' = "remove_trailing_commas"
    /\ UNCHANGED <<text_in, generateVars, normalizeVars, requestVars, providerVars>>

\* Line 1067: fix_unescaped_control_chars(response_text)
CallFixControlChars ==
    /\ called = ""
    /\ text_out' = Some(fix_unescaped_control_chars(text_in))
    /\ called' = "fix_unescaped_control_chars"
    /\ UNCHANGED <<text_in, generateVars, normalizeVars, requestVars, providerVars>>

\* Line 1281 and 1344: fix_json_common_issues(text)
CallFixCommonIssues ==
    /\ called = ""
    /\ text_out' = Some(fix_json_common_issues(text_in))
    /\ called' = "fix_json_common_issues"
    /\ UNCHANGED <<text_in, generateVars, normalizeVars, requestVars, providerVars>>

\* Line 1326 and 1373: smart_truncate_json(text)
CallSmartTruncate ==
    /\ called = ""
    /\ text_out' = smart_truncate_json(text_in)
    /\ called' = "smart_truncate_json"
    /\ UNCHANGED <<text_in, generateVars, normalizeVars, requestVars, providerVars>>

\* Line 1278: find_json_object(text)
CallFindJsonObject ==
    /\ called = ""
    /\ text_out' = find_json_object(text_in)
    /\ called' = "find_json_object"
    /\ UNCHANGED <<text_in, generateVars, normalizeVars, requestVars, providerVars>>

NextCalls ==
    \/ CallRemoveTrailingCommas
    \/ CallFixControlChars
    \/ CallFixCommonIssues
    \/ CallSmartTruncate
    \/ CallFindJsonObject

SpecCalls == InitCalls /\ [][NextCalls]_vars

(***************************************************************************)
(* The model failover loop of generate_api_with_openai (line 894-975).     *)
(***************************************************************************)

\* Line 896-911: the candidate models of a client, in the order of the list.
models_to_try(client) ==
    IF client = "groq"
    THEN <<"llama-3.1-70b-versatile", "llama-3.1-8b-instant", "mixtral-8x22b-32768">>
    ELSE <<"gpt-4o", "gpt-4-turbo", "gpt-4", "gpt-3.5-turbo">>

\* The texts of the errors a provider call may raise: a rate limit, an unknown
\* model, a rejected key, a timeout, and a text that names two status codes.
ProviderErrors ==
    { <<"4", "2", "9">>,
      <<"4", "0", "4">>,
      <<"4", "0", "1">>,
      <<"t", "i", "m", "e", "o", "u", "t">>,
      <<"4", "0", "4", " ", "4", "2", "9">> }

InitFailover ==
    /\ client_type \in {"groq", "openai"}
    /\ model_calls = <<>>
    /\ response = None
    /\ last_error = None
    /\ raised_message = ""
    /\ fpc = "loop"
    /\ NoGeneration
    /\ schema_document = PyNone
    /\ schema_origin = NoEncoding
    /\ outcome = Returned(PyNone)
    /\ npc = "idle"
    /\ existing_entities = {}
    /\ request_schema = PyNone
    /\ status = 0
    /\ NoCall

\* A loop that goes on to the next model after a call that returned.
CallModelWithoutBreak ==
    /\ fpc = "loop"
    /\ LET model_name == models_to_try(client_type)[Len(model_calls) + 1]
           last == Len(model_calls) + 1 = Len(models_to_try(client_type))
       IN  \/ \E content \in CleanupDocs :
                 /\ response' = Some(content)
                 /\ model_calls' = Append(model_calls, [model |-> model_name, error |-> <<>>])
                 /\ fpc' = IF last THEN "after_loop" ELSE "loop"
                 /\ UNCHANGED last_error
           \/ \E e \in ProviderErrors :
                 /\ last_error' = Some(e)
                 /\ model_calls' = Append(model_calls, [model |-> model_name, error |-> e])
                 /\ fpc' = IF last THEN "after_loop" ELSE "loop"
                 /\ UNCHANGED response
    /\ UNCHANGED <<client_type, raised_message>>
    /\ UNCHANGED <<generateVars, normalizeVars, requestVars, callVars>>

\* Line 916-943: one iteration of the loop, the call of the next model of the
\* list. The call returns a response (break) or raises (continue).
CallModel ==
    /\ fpc = "loop"
    /\ LET model_name == models_to_try(client_type)[Len(model_calls) + 1]
           last == Len(model_calls) + 1 = Len(models_to_try(client_type))
       IN  \/ \E content \in CleanupDocs :
                 /\ response' = Some(content)
                 /\ model_calls' = Append(model_calls, [model |-> model_name, error |-> <<>>])
                 /\ fpc' = "after_loop"
                 /\ UNCHANGED last_error
           \/ \E e \in ProviderErrors :
                 /\ last_error' = Some(e)
                 /\ model_calls' = Append(model_calls, [model |-> model_name, error |-> e])
                 /\ fpc' = IF last THEN "after_loop" ELSE "loop"
                 /\ UNCHANGED response
    /\ UNCHANGED <<client_type, raised_message>>
    /\ UNCHANGED <<generateVars, normalizeVars, requestVars, callVars>>

\* Line 945-972: no call returned; the message of the exception is chosen by
\* the text of the last error.
AllModelsFailed ==
    /\ fpc = "after_loop"
    /\ ~response.ok
    /\ LET error_str == last_error.text
           has(word) == Contains(error_str, word)
           lower_has(word) == Contains(Lower(error_str), word)
       IN  raised_message' =
               IF \/ has(<<"i", "n", "s", "u", "f", "f", "i", "c", "i", "e", "n", "t", "_", "q", "u", "o", "t", "a">>)
                  \/ has(<<"4", "2", "9">>)
                  \/ lower_has(<<"r", "a", "t", "e", "_", "l", "i", "m", "i", "t">>)
               THEN "quota exceeded"
               ELSE IF \/ has(<<"m", "o", "d", "e", "l", "_", "n", "o", "t", "_", "f", "o", "u", "n", "d">>)
                       \/ has(<<"4", "0", "4">>)
                       \/ has(<<"d", "e", "c", "o", "m", "m", "i", "s", "s", "i", "o", "n", "e", "d">>)
                       \/ lower_has(<<"d", "o", "e", "s", " ", "n", "o", "t", " ", "e", "x", "i", "s", "t">>)
               THEN "model not available"
               ELSE IF \/ has(<<"4", "0", "1">>)
                       \/ has(<<"i", "n", "v", "a", "l", "i", "d", "_", "a", "p", "i", "_", "k", "e", "y">>)
                       \/ lower_has(<<"a", "u", "t", "h", "e", "n", "t", "i", "c", "a", "t", "i", "o", "n">>)
                       \/ lower_has(<<"u", "n", "a", "u", "t", "h", "o", "r", "i", "z", "e", "d">>)
               THEN "invalid API key"
               ELSE "all models failed"
    /\ fpc' = "raised"
    /\ UNCHANGED <<client_type, model_calls, response, last_error>>
    /\ UNCHANGED <<generateVars, normalizeVars, requestVars, callVars>>

\* Line 975: a call returned; the content of its response is read and the
\* parsing begins.
ExtractResponse ==
    /\ fpc = "after_loop"
    /\ response.ok
    /\ raw' = response.text
    /\ pc' = "received"
    /\ fpc' = "responded"
    /\ UNCHANGED <<origin, response_text, files, json_parsed, extracted_json, cleaned_response,
                   error, tried, language>>
    /\ UNCHANGED <<client_type, model_calls, response, last_error, raised_message>>
    /\ UNCHANGED <<normalizeVars, requestVars, callVars>>

NextFailover ==
    \/ CallModel
    \/ AllModelsFailed
    \/ ExtractResponse

SpecFailover == InitFailover /\ [][NextFailover]_vars

(***************************************************************************)
(* Properties of the recovery logic.                                       *)
(***************************************************************************)

\* The call has made parse attempt a.
Tried(a) == \E i \in 1..Len(tried) : tried[i] = a

\* The call ended in an error before it reached the clean-up by language.
RecoveryFailed == pc = "raised" /\ language = ""

\* C1: Round trip. When the input is the compliant serialization of
\* {"files": F}, F a non-empty map from forward-slash paths to texts, recovery
\* does not fail and the mapping it accepts (before the clean-up by language
\* and the README step) is exactly F.
C1_RoundTrip ==
    origin.kind = "dump" =>
        /\ ~RecoveryFailed
        /\ pc = "accepted" => DictEq(files, origin.F)

\* C2: Every value of the file map that recovery produces is a text string,
\* whatever path accepted it and whatever the parsed value was.
C2_ValuesAreText ==
    (pc \in {"accepted", "returned"} /\ files.t = "dict") =>
        \A i \in 1..Len(files.items) : files.items[i].t = "str"

\* C3: Truncation recovery floor. When the input is the serialization of
\* {"files": F} cut off right after the comma that follows entry number N,
\* recovery does not fail and accepts exactly the first N entries of F.
C3_TruncationFloor ==
    origin.kind = "cut" =>
        /\ ~RecoveryFailed
        /\ pc = "accepted" => DictEq(files, FirstEntries(origin.F, origin.keep))

\* C4: Recovery reports failure only after the strict parse, the balanced-brace
\* extraction with repair, the truncation recovery and the pattern extraction
\* have each been tried, also when the strict parse succeeds on a document
\* whose files mapping is missing or empty.
C4_FailureAfterAllStrategies ==
    RecoveryFailed =>
        /\ Tried("strict")
        /\ Tried("balanced")
        /\ Tried("truncate")
        /\ Tried("regex")

\* C5: An empty file map is never a success: where the result is accepted,
\* json_parsed is true and files is non-empty, and what the call returns is
\* non-empty.
C5_NoEmptySuccess ==
    /\ pc = "accepted" => json_parsed /\ Truthy(files)
    /\ pc = "returned" => Truthy(files)

\* A parse succeeded on a document whose files mapping is missing or empty, and
\* the call ended in an error.
C5_Witness == pc = "raised" /\ json_parsed /\ ~Truthy(files)

\* text holds no "{", or no "}" after its first "{".
NoBraceStructure(text) ==
    \/ Find(text, <<"{">>) = 0
    \/ FindFrom(text, <<"}">>, Find(text, <<"{">>)) = 0

C7_NeverFails == npc = "done" => outcome.error = ""

\* The table of raw type strings and the tags they are to get.
TypeTable ==
    { <<<<"V", "A", "R", "C", "H", "A", "R">>, <<"s", "t", "r", "i", "n", "g">>>>,
      <<<<"B", "O", "O", "L">>, <<"b", "o", "o", "l", "e", "a", "n">>>>,
      <<<<"T", "I", "M", "E", "S", "T", "A", "M", "P">>, <<"d", "a", "t", "e", "t", "i", "m", "e">>>>,
      <<<<"D", "O", "U", "B", "L", "E">>, <<"f", "l", "o", "a", "t">>>>,
      <<<<"T", "E", "X", "T">>, <<"t", "e", "x", "t">>>>,
      <<<<"I", "N", "T", "4">>, <<"i", "n", "t", "e", "g", "e", "r">>>> }

\* Model and field names that no detection branch gives a meaning to.
PlainModelNames == ModelNames \ {ComponentsKey, DefinitionsKey, <<>>}

PlainFieldNames == FieldNames \ {<<>>}

\* C8: Type canonicalization table. A field written with a raw type of the
\* table gets the table's tag, through process_model (array and OpenAPI
\* encodings) and through the already-normalized branch (map encoding).
C8_TypeTable ==
    \A row \in TypeTable :
        (/\ npc = "done"
         /\ schema_origin.kind \in {"array", "map", "openapi"}
         /\ schema_origin.M \in PlainModelNames
         /\ schema_origin.f \in PlainFieldNames
         /\ schema_origin.t = row[1])
        => outcome = Returned(MapEncoding(schema_origin.M, schema_origin.f, row[2]))

\* C9 as stated: for every non-empty model name M and field name f and every
\* raw type t, each of the three encodings normalizes to {M: {f: canon(t)}}.
C9_FormatEquivalence ==
    (/\ npc = "done"
     /\ schema_origin.kind \in {"array", "map", "openapi"}
     /\ schema_origin.M # <<>>
     /\ schema_origin.f # <<>>)
    => outcome = Returned(MapEncoding(schema_origin.M, schema_origin.f,
                                      clean_type(PyStr(schema_origin.t)).s))

\* C9: Schema format equivalence. For every non-empty model name M, non-empty
\* field name f and raw type t, the array and the OpenAPI encodings normalize
\* to {M: {f: canon(t)}}, and so does the map encoding {M: {f: t}} unless M is
\* a container key: with M = definitions the document is taken for a Swagger
\* container and comes back unchanged, with M = components and f = schemas the
\* call raises AttributeError.
C9_EncodingsAgree ==
    (/\ npc = "done"
     /\ schema_origin.kind \in {"array", "map", "openapi"}
     /\ schema_origin.M # <<>>
     /\ schema_origin.f # <<>>)
    => IF schema_origin.kind = "map" /\ schema_origin.M = DefinitionsKey
       THEN outcome = Returned(schema_document)
       ELSE IF /\ schema_origin.kind = "map"
               /\ schema_origin.M = ComponentsKey
               /\ schema_origin.f = SchemasKey
       THEN outcome = Raised("AttributeError")
       ELSE outcome = Returned(MapEncoding(schema_origin.M, schema_origin.f,
                                           clean_type(PyStr(schema_origin.t)).s))

\* The map encoding {"User": {"id": "int"}} was normalized to {"User": {"id": "integer"}}.
C9_Witness ==
    /\ npc = "done"
    /\ schema_origin = Encoding("map", <<"U", "s", "e", "r">>, <<"i", "d">>, <<"i", "n", "t">>)
    /\ outcome = Returned(MapEncoding(<<"U", "s", "e", "r">>, <<"i", "d">>,
                                      <<"i", "n", "t", "e", "g", "e", "r">>))

\* C10: Commit condition. Every model of a result that normalize_schema built
\* (a return value that is not the unchanged input) has a non-empty name and at
\* least one field.
C10_CommitCondition ==
    (/\ npc = "done"
     /\ outcome.error = ""
     /\ outcome.val # schema_document
     /\ outcome.val.t = "dict")
    => \A i \in 1..Len(outcome.val.keys) :
          /\ outcome.val.keys[i] # <<>>
          /\ outcome.val.items[i].t = "dict"
          /\ Len(outcome.val.items[i].keys) >= 1

\* C11: Identity fallback. When the call commits no model, normalize_schema
\* returns the original input value unchanged.
C11_IdentityFallback ==
    (npc = "done" /\ ~commits_model(schema_document)) => outcome = Returned(schema_document)

\* C11 for the calls that return: a call that commits no model and raises
\* nothing returns its input.
C11_IdentityWhenReturned ==
    (npc = "done" /\ ~commits_model(schema_document) /\ outcome.error = "")
    => outcome.val = schema_document

\* Line 158-163 and 197-202: the six type tags.
TypeTags ==
    { <<"i", "n", "t", "e", "g", "e", "r">>, <<"b", "o", "o", "l", "e", "a", "n">>, <<"d", "a", "t", "e", "t", "i", "m", "e">>,
      <<"f", "l", "o", "a", "t">>, <<"t", "e", "x", "t">>, <<"s", "t", "r", "i", "n", "g">> }

\* C12: Closed type-tag enumeration. Whenever the call commits at least one
\* model and returns, every field value of every model of the returned mapping
\* is one of integer, boolean, datetime, float, text, string.
C12_ClosedTypeTags ==
    (npc = "done" /\ commits_model(schema_document) /\ outcome.error = "")
    => /\ outcome.val.t = "dict"
       /\ \A i \in 1..Len(outcome.val.items) :
             /\ outcome.val.items[i].t = "dict"
             /\ \A j \in 1..Len(outcome.val.items[i].items) :
                   /\ outcome.val.items[i].items[j].t = "str"
                   /\ outcome.val.items[i].items[j].s \in TypeTags

\* A model whose field has a type that is no string (the list ["Int"]) was
\* committed with the tag integer.
C12_Witness ==
    /\ npc = "done"
    /\ schema_document.t = "list"
    /\ Len(schema_document.items) = 1
    /\ HasKey(schema_document.items[1], PropertiesKey)
    /\ commits_model(schema_document)
    /\ outcome = Returned(MapEncoding(<<"T">>, <<"a">>, <<"i", "n", "t", "e", "g", "e", "r">>))

(***************************************************************************)
(* Properties of generate_api.                                             *)
(***************************************************************************)

\* A canonical schema: a non-empty mapping whose every value is a mapping whose
\* every value is a string type tag.
Canonical(v) ==
    /\ v.t = "dict"
    /\ Len(v.keys) > 0
    /\ \A i \in 1..Len(v.items) :
          /\ v.items[i].t = "dict"
          /\ \A j \in 1..Len(v.items[i].items) :
                /\ v.items[i].items[j].t = "str"
                /\ v.items[i].items[j].s \in TypeTags

\* C13: Caller-side rejection. generate_api_with_openai is called only when
\* normalize_schema returned a canonical value; a request whose normalized
\* schema is not canonical is answered with an error and never generates.
C13_CallerRejects ==
    npc \in {"validated", "generating"} => outcome.error = "" /\ Canonical(outcome.val)

(***************************************************************************)
(* Properties of the text functions.                                       *)
(***************************************************************************)

\* The two flags after the first i characters of text: a quote toggles in_string
\* unless it is escaped, a backslash escapes exactly the next character.
RECURSIVE LexState(_, _)
LexState(text, i) ==
    IF i = 0 THEN [in_string |-> FALSE, escaped |-> FALSE]
    ELSE LET before == LexState(text, i - 1) IN
         IF before.escaped THEN [before EXCEPT !.escaped = FALSE]
         ELSE IF text[i] = "\\" THEN [before EXCEPT !.escaped = TRUE]
         ELSE IF text[i] = "\"" THEN [before EXCEPT !.in_string = ~before.in_string]
         ELSE before

\* The positions of text that hold a raw control character inside a string literal.
RawControlInString(text) ==
    {i \in 1..Len(text) : text[i] \in ControlChars /\ LexState(text, i - 1).in_string}

\* C14: Re-escaping is the identity on already-valid text. A text with no raw
\* control character inside a string literal comes back from
\* fix_unescaped_control_chars character for character unchanged.
C14_EscapeIdentity ==
    (called = "fix_unescaped_control_chars" /\ RawControlInString(text_in) = {})
    => text_out = Some(text_in)

\* A raw tab outside any string literal, followed by a string literal that
\* begins with the escape sequence \n, came back unchanged.
C14_Witness ==
    /\ called = "fix_unescaped_control_chars"
    /\ text_in = <<"\t", "\"", "\\", "n">>
    /\ text_out = Some(text_in)

\* The object and the array of strings that ValueTexts writes as the value of
\* file a, and the text both are to become.
ObjectOfStrings == <<"{", "\"", "k", "\"", ":", "\"", "x", "\"", ",", "\"", "m", "\"", ":", "\"", "y", "\"", "}">>

ArrayOfStrings == <<"[", "\"", "x", "\"", ",", "\"", "y", "\"", "]">>

JoinedStrings == PyStr(<<"x", "\n", "y">>)

\* C15: Content coercion result. When the value of file a is the object
\* {"k":"x","m":"y"} or the array ["x","y"], the content recovery accepts for a
\* is "x\ny" (the values joined by a line break, in order), and the string
\* entry b of the same map is left as it is.
C15_CoercionResult ==
    (/\ pc = "accepted"
     /\ files.t = "dict"
     /\ Contains(raw, ObjectOfStrings) \/ Contains(raw, ArrayOfStrings)
     /\ HasKey(files, <<"a">>))
    => /\ DictGet(files, <<"a">>) = JoinedStrings
       /\ HasKey(files, <<"b">>) => DictGet(files, <<"b">>) = PyStr(<<"y">>)

\* C15 on the paths that coerce: when the strict parse, strategy 1 or strategy 2
\* accepted the map (no truncation and no pattern match was tried), the content
\* of a is "x\ny" and b is left as it is.
C15_CoercionWhereApplied ==
    (/\ pc = "accepted"
     /\ files.t = "dict"
     /\ ~Tried("truncate") /\ ~Tried("regex")
     /\ Contains(raw, ObjectOfStrings) \/ Contains(raw, ArrayOfStrings)
     /\ HasKey(files, <<"a">>))
    => /\ DictGet(files, <<"a">>) = JoinedStrings
       /\ HasKey(files, <<"b">>) => DictGet(files, <<"b">>) = PyStr(<<"y">>)

\* The attempts that discard no data.
NonTruncating == {"strict", "balanced", "repair", "regex"}

\* C16: Stage ordering. Truncation recovery is attempted only after the strict
\* parse, the balanced-brace extraction, the repair of the full text and the
\* pattern extraction have each been attempted.
C16_TruncationLast ==
    \A i \in 1..Len(tried) :
        tried[i] = "truncate" =>
            \A a \in NonTruncating : \E j \in 1..(i - 1) : tried[j] = a

\* The textual defect repairs.
Repairs == {"remove_trailing_commas", "fix_json_common_issues"}

\* C17: Repairs never rewrite content. A well-formed document that goes
\* through the trailing-comma deletion or through fix_json_common_issues still
\* parses, and to the same value: every string of it, each file's content
\* included, is after the repair what it was before.
C17_RepairsKeepContent ==
    (called \in Repairs /\ json_loads(text_in).ok)
    => json_loads(text_out.text) = json_loads(text_in)

\* C18: Re-escaping postcondition. In the text that fix_unescaped_control_chars
\* returns no raw control character is left inside a string literal, whatever
\* character precedes it.
C18_NoRawControlLeft ==
    called = "fix_unescaped_control_chars" => RawControlInString(text_out.text) = {}

\* The characters of text before position i that lie outside string literals and
\* are in S.
Outside(text, i, S) ==
    {j \in 1..(i - 1) : /\ text[j] \in S
                        /\ ~LexState(text, j - 1).in_string
                        /\ ~LexState(text, j - 1).escaped}

\* Position i of text, a text that begins just inside an object, is directly
\* inside that object: outside any string literal, and every brace and bracket
\* opened before it is closed before it.
TopLevel(text, i) ==
    /\ ~LexState(text, i - 1).in_string
    /\ Cardinality(Outside(text, i, {"{", "["})) = Cardinality(Outside(text, i, {"}", "]"}))

\* C19: Truncation safe comma. The comma at which smart_truncate_json cuts is
\* a top-level separator of the files object: it lies in no string literal and
\* in no nested object or array of an entry's value.
C19_SafeComma ==
    (called = "smart_truncate_json" /\ truncation_point(text_in) # 0)
    => LET brace_after_files == FindFrom(text_in, <<"{">>, Find(text_in, FilesLiteral))
       IN  TopLevel(SubSeq(text_in, brace_after_files + 1, Len(text_in)),
                    truncation_point(text_in) - brace_after_files)

\* smart_truncate_json(text) ends at line 1195: the files object of text opens,
\* never closes, and no comma was recorded.
NoSafeComma(text) ==
    /\ Find(text, FilesLiteral) # 0
    /\ FindFrom(text, <<"{">>, Find(text, FilesLiteral)) # 0
    /\ ~smart_truncate_json(text).ok

\* Truncation recovery was attempted and each attempt made recorded no safe
\* comma: the one of line 1326 follows the balanced-brace extraction and works
\* on extracted_json, the one of line 1373 follows the repair and works on
\* cleaned_response.
TruncationFoundNothing ==
    /\ Tried("truncate")
    /\ \A i \in 2..Len(tried) :
           tried[i] = "truncate" =>
               \/ tried[i - 1] = "balanced" /\ NoSafeComma(extracted_json.text)
               \/ tried[i - 1] = "repair" /\ NoSafeComma(cleaned_response)

\* C20: If truncation recovery records no safe comma, the engine reports
\* failure: no later step accepts or returns a file map for that input.
C20_NoSafeCommaFails ==
    TruncationFoundNothing => pc \notin {"accepted", "returned"}

\* The braces of text outside string literals are balanced: as many are closed
\* as are opened.
BalancedBraces(text) ==
    Cardinality(Outside(text, Len(text) + 1, {"{"})) = Cardinality(Outside(text, Len(text) + 1, {"}"}))

\* C21: Truncation output is re-balanced. Whenever smart_truncate_json returns
\* a text, the braces of that text outside string literals are balanced, at
\* whatever depth the first "files" key of the input lies.
C21_TruncationBalanced ==
    (called = "smart_truncate_json" /\ text_out.ok) => BalancedBraces(text_out.text)

RECURSIVE Nesting(_, _, _, _, _)
\* The number of braces of text left open at its end, counting from position i
\* with d open, braces inside string literals ignored; -1 once a brace closes
\* that was never opened.
Nesting(text, i, in_string, escaped, d) ==
    IF d < 0 THEN -1
    ELSE IF i > Len(text) THEN d
    ELSE IF in_string
    THEN IF escaped THEN Nesting(text, i + 1, TRUE, FALSE, d)
         ELSE IF text[i] = "\\" THEN Nesting(text, i + 1, TRUE, TRUE, d)
         ELSE Nesting(text, i + 1, text[i] # "\"", FALSE, d)
    ELSE IF text[i] = "\"" THEN Nesting(text, i + 1, TRUE, FALSE, d)
    ELSE IF text[i] = "{" THEN Nesting(text, i + 1, FALSE, FALSE, d + 1)
    ELSE IF text[i] = "}" THEN Nesting(text, i + 1, FALSE, FALSE, d - 1)
    ELSE Nesting(text, i + 1, FALSE, FALSE, d)

\* The spans <<i, j>> of text that start with "{", end with "}" and have
\* balanced braces.
BalancedSpans(text) ==
    {p \in {i \in 1..Len(text) : text[i] = "{"} \X {j \in 1..Len(text) : text[j] = "}"} :
        p[1] < p[2] /\ Nesting(SubSeq(text, p[1], p[2]), 1, FALSE, FALSE, 0) = 0}

\* C22: Balanced-brace extraction returns the largest balanced span. What
\* find_json_object returned for response_text is a balanced span of it that no
\* balanced span of response_text exceeds in length, and it returned one
\* whenever there is one.
C22_LargestSpan ==
    Tried("balanced") =>
        IF BalancedSpans(response_text) = {} THEN ~extracted_json.ok
        ELSE /\ extracted_json.ok
             /\ \A p \in BalancedSpans(response_text) :
                    p[2] - p[1] + 1 <= Len(extracted_json.text)

\* The scanners that track string literals.
Scanners == {"fix_unescaped_control_chars", "find_json_object", "smart_truncate_json"}

\* The positions of text at which the code starts a scanner: the first
\* character (fix_unescaped_control_chars), the first "{" (find_json_object),
\* the character after the brace of the files object (smart_truncate_json).
ScanStarts(text) ==
    {1, Find(text, <<"{">>), FindFrom(text, <<"{">>, Find(text, FilesLiteral)) + 1}
    \ {0, Len(text) + 1}

RECURSIVE ObjectScanAgrees(_, _, _, _)
\* From position i on, with f the flags of fix_unescaped_control_chars and o the
\* variables of find_json_object: the two hold the same in_string and
\* escape_next before every character that find_json_object reads and when
\* its loop ends.
ObjectScanAgrees(text, i, f, o) ==
    /\ f.in_string = o.in_string
    /\ f.escape_next = o.escape_next
    /\ i > Len(text) \/ o.broke
       \/ ObjectScanAgrees(text, i + 1, fix_step(text[i], f.in_string, f.escape_next),
                           object_step(text, i, o))

RECURSIVE TruncateScanAgrees(_, _, _, _)
\* The same of fix_unescaped_control_chars and smart_truncate_json.
TruncateScanAgrees(text, i, f, st) ==
    /\ f.in_string = st.in_string
    /\ f.escape_next = st.escape_next
    /\ i > Len(text) \/ st.returned
       \/ TruncateScanAgrees(text, i + 1, fix_step(text[i], f.in_string, f.escape_next),
                             truncate_step(text, i, st))

\* C23: The three scanners track strings and escapes identically. Started at
\* the same position of the same text, each with its flags as its code
\* initialises them, fix_unescaped_control_chars, find_json_object and
\* smart_truncate_json hold the same (in_string, escape_next) after every
\* character, as long as the loop of the scanner runs.
C23_ScannersAgree ==
    called \in Scanners =>
        \A start \in ScanStarts(text_in) :
            /\ ObjectScanAgrees(text_in, start,
                                [in_string |-> FALSE, escape_next |-> FALSE],
                                [in_string |-> FALSE, escape_next |-> FALSE, brace_count |-> 0,
                                 end |-> start, broke |-> FALSE])
            /\ TruncateScanAgrees(text_in, start,
                                  [in_string |-> FALSE, escape_next |-> FALSE],
                                  [in_string |-> FALSE, escape_next |-> FALSE, brace_depth |-> 1,
                                   last_valid_comma |-> 0, returned |-> FALSE, value |-> <<>>])

\* find_json_object was called on a text whose first brace is followed by a
\* string literal that holds an escaped quote and a brace, and returned the
\* whole object.
C23_Witness ==
    /\ called = "find_json_object"
    /\ \E i \in 1..Len(text_in) :
           /\ text_in[i] = "\\" /\ i < Len(text_in) /\ text_in[i + 1] = "\""
           /\ LexState(text_in, i - 1) = [in_string |-> TRUE, escaped |-> FALSE]
           /\ Find(text_in, <<"{">>) \in 1..(i - 1)
           /\ \E j \in (i + 2)..Len(text_in) :
                  text_in[j] \in {"{", "}"} /\ LexState(text_in, j - 1).in_string
    /\ text_out.ok

\* The rule list: a rule matches a text that contains every word of all and,
\* if any is not empty, one of the words of any.
TypeRules ==
    << [all |-> {<<"i", "n", "t">>}, any |-> {}, tag |-> <<"i", "n", "t", "e", "g", "e", "r">>],
       [all |-> {<<"b", "o", "o", "l">>}, any |-> {}, tag |-> <<"b", "o", "o", "l", "e", "a", "n">>],
       [all |-> {<<"d", "a", "t", "e">>, <<"t", "i", "m", "e">>}, any |-> {},
        tag |-> <<"d", "a", "t", "e", "t", "i", "m", "e">>],
       [all |-> {}, any |-> {<<"d", "e", "c", "i", "m", "a", "l">>, <<"d", "o", "u", "b", "l", "e">>,
                             <<"n", "u", "m", "b", "e", "r">>},
        tag |-> <<"f", "l", "o", "a", "t">>],
       [all |-> {<<"t", "e", "x", "t">>}, any |-> {}, tag |-> <<"t", "e", "x", "t">>] >>

RuleMatches(rule, s) ==
    /\ \A w \in rule.all : Contains(s, w)
    /\ rule.any = {} \/ \E w \in rule.any : Contains(s, w)

\* The tag of the first rule that matches s, string if none does.
FirstMatchTag(s) ==
    LET hits == {k \in 1..Len(TypeRules) : RuleMatches(TypeRules[k], s)}
    IN  IF hits = {} THEN <<"s", "t", "r", "i", "n", "g">>
        ELSE TypeRules[CHOOSE k \in hits : \A h \in hits : k <= h].tag

\* C24: Type canonicalization is the first-match rule list. A field written
\* with raw type t gets the tag of the first rule that the lower-cased t
\* matches, through process_model (array and OpenAPI encodings) and through
\* the already-normalized branch (map encoding) alike.
C24_FirstMatchRules ==
    (/\ npc = "done"
     /\ schema_origin.kind \in {"array", "map", "openapi"}
     /\ schema_origin.M \in PlainModelNames
     /\ schema_origin.f \in PlainFieldNames)
    => outcome = Returned(MapEncoding(schema_origin.M, schema_origin.f,
                                      FirstMatchTag(Lower(schema_origin.t))))

\* The raw type text_int, which holds both "text" and "int", got the tag of the
\* earlier rule in the array encoding.
C24_Witness ==
    /\ npc = "done"
    /\ schema_origin = Encoding("array", <<"U", "s", "e", "r">>, <<"i", "d">>,
                                <<"t", "e", "x", "t", "_", "i", "n", "t">>)
    /\ outcome = Returned(MapEncoding(<<"U", "s", "e", "r">>, <<"i", "d">>,
                                      <<"i", "n", "t", "e", "g", "e", "r">>))

\* The schema is a list of one descriptor that has a field-container key.
OneDescriptorWithContainer ==
    /\ schema_document.t = "list"
    /\ Len(schema_document.items) = 1
    /\ schema_document.items[1].t = "dict"
    /\ \E k \in 1..Len(field_keys) : HasKey(schema_document.items[1], field_keys[k])

\* C25: Self-as-fields fallback only without a container. A descriptor that
\* has a field-container key gets its fields from the first present container
\* key only: a model committed for it has exactly the field names of that
\* container, and when the container yields no fields no model is committed
\* and the schema comes back as it was.
C25_ContainerOnly ==
    (npc = "done" /\ OneDescriptorWithContainer /\ outcome.error = "")
    => LET in_container == container_fields(schema_document.items[1]).val
       IN  IF ~Truthy(in_container) THEN outcome = Returned(schema_document)
           ELSE \/ outcome = Returned(schema_document)
                \/ /\ outcome.val.t = "dict"
                   /\ \A i \in 1..Len(outcome.val.items) :
                          outcome.val.items[i].keys = in_container.keys

\* The schema is an object with a components.schemas or a definitions
\* container that is an object.
HasModelContainer(schema) ==
    /\ schema.t = "dict"
    /\ \/ /\ HasKey(schema, ComponentsKey)
          /\ DictGet(schema, ComponentsKey).t = "dict"
          /\ HasKey(DictGet(schema, ComponentsKey), SchemasKey)
          /\ DictGet(DictGet(schema, ComponentsKey), SchemasKey).t = "dict"
       \/ /\ ~(HasKey(schema, ComponentsKey) /\ In(SchemasKey, DictGet(schema, ComponentsKey)))
          /\ HasKey(schema, DefinitionsKey)
          /\ DictGet(schema, DefinitionsKey).t = "dict"

\* The container the models are to be built from: components.schemas before
\* definitions.
ModelContainer(schema) ==
    IF HasKey(schema, ComponentsKey) /\ In(SchemasKey, DictGet(schema, ComponentsKey))
    THEN DictGet(DictGet(schema, ComponentsKey), SchemasKey)
    ELSE DictGet(schema, DefinitionsKey)

\* C26: Format detection priority for object input. With a components.schemas
\* or a definitions container, every model of a result that the call built is
\* named by a key of that container; without one, an already canonical schema
\* gets its types normalized and nothing else, before any single-model
\* interpretation.
C26_DetectionPriority ==
    (npc = "done" /\ outcome.error = "" /\ schema_document.t = "dict")
    => IF HasModelContainer(schema_document)
       THEN \/ outcome = Returned(schema_document)
            \/ /\ outcome.val.t = "dict"
               /\ \A i \in 1..Len(outcome.val.keys) :
                      HasKey(ModelContainer(schema_document), outcome.val.keys[i])
       ELSE (/\ ~HasKey(schema_document, ComponentsKey)
             /\ ~HasKey(schema_document, DefinitionsKey)
             /\ is_already_normalized(schema_document))
            => outcome = Returned(normalize_types(schema_document))

\* C27: Normalization is idempotent on its own output. When the call commits
\* at least one model and returns, normalize_schema of what it returned
\* returns the same value again.
C27_Idempotent ==
    (npc = "done" /\ commits_model(schema_document) /\ outcome.error = "")
    => normalize_schema(outcome.val) = outcome

ModelKey == <<"m", "o", "d", "e", "l">>

TitleKey == <<"t", "i", "t", "l", "e">>

\* The key of the descriptor that supplies the model name: the first of name,
\* model, title with a value that counts as true.
NameSupplier(d) ==
    IF Truthy(DictGetNone(d, NameKey)) THEN NameKey
    ELSE IF Truthy(DictGetNone(d, ModelKey)) THEN ModelKey
    ELSE TitleKey

\* The schema is a bare object taken as a single model whose own entries are
\* its fields: it has no model container and no field-container key, it is not
\* already canonical, it names itself by a string, and its values are strings
\* or objects.
BareSingleModel(d) ==
    /\ d.t = "dict"
    /\ ~HasKey(d, ComponentsKey) /\ ~HasKey(d, DefinitionsKey)
    /\ \A k \in 1..Len(field_keys) : ~HasKey(d, field_keys[k])
    /\ ~is_already_normalized(d)
    /\ embedded_name(d).t = "str" /\ Truthy(embedded_name(d))
    /\ is_simple(d)

\* C28: Model-name key is not a field. A bare object taken as a single model
\* is committed under the string found under its name, model or title key, and
\* that key is no field of the committed model.
C28_NameKeyNoField ==
    (npc = "done" /\ BareSingleModel(schema_document))
    => /\ outcome.error = ""
       /\ outcome.val.t = "dict"
       /\ outcome.val.keys = <<embedded_name(schema_document).s>>
       /\ ~HasKey(outcome.val.items[1], NameSupplier(schema_document))

\* The dependency files that the prompt forbids for a language (line 743-766).
ForbiddenFiles(lang) ==
    IF lang \in {"nodejs-express", "nodejs-nestjs", "typescript-express", "nextjs-approuter"}
    THEN {RequirementsTxt}
    ELSE IF lang \in {"python-flask", "python-fastapi"} THEN {PackageJson}
    ELSE IF lang = "java-spring" THEN {RequirementsTxt, PackageJson}
    ELSE {}

\* C29: Forbidden dependency files are removed. A file map that the call
\* returns holds no dependency file that the prompt forbids for the configured
\* language.
C29_ForbiddenRemoved ==
    (pc = "returned" /\ files.t = "dict")
    => \A name \in ForbiddenFiles(language) : ~HasKey(files, name)

(***************************************************************************)
(* Properties of the model failover loop.                                  *)
(***************************************************************************)

\* C30: Provider failover order. The models are called in the order of the
\* list, model k only after every model before it raised, so that no call
\* follows a call that returned; and once the loop is over the call raises its
\* all-models-failed error, before any parsing, exactly when every model of
\* the list was called and raised.
C30_FailoverOrder ==
    LET models == models_to_try(client_type)
        all_raised == /\ Len(model_calls) = Len(models)
                      /\ \A k \in 1..Len(model_calls) : model_calls[k].error # <<>>
    IN  /\ Len(model_calls) <= Len(models)
        /\ \A k \in 1..Len(model_calls) :
               /\ model_calls[k].model = models[k]
               /\ \A j \in 1..(k - 1) : model_calls[j].error # <<>>
        /\ fpc = "raised" => all_raised /\ raised_message # "" /\ pc = "idle" /\ tried = <<>>
        /\ fpc = "responded" => ~all_raised /\ raised_message = "" /\ pc = "received"
        /\ fpc = "loop" => Len(model_calls) < Len(models) /\ ~response.ok

\* The first two models of the OpenAI list raised, the third returned, and the
\* fourth was not called.
C30_Witness ==
    /\ client_type = "openai"
    /\ fpc = "responded"
    /\ Len(model_calls) = 3
    /\ model_calls[1].error # <<>>
    /\ model_calls[2].error # <<>>
    /\ model_calls[3] = [model |-> "gpt-4", error |-> <<>>]

====
